---------------------------- MODULE Spec2Model ----------------------------
(***************************************************************************)
(* A model of the coordination layer of the distributed auction cluster:   *)
(* Lamport clock, Ricart-Agrawala mutual exclusion, Bully election, the    *)
(* quorum two-phase commit of bids, the item queue with snapshot           *)
(* replication, and checkpoint / restore.                                  *)
(*                                                                         *)
(* Every RPC of the source is RPCClient.Call: dial the address, run the    *)
(* handler on the remote node, return the reply or an error. A call made   *)
(* by a goroutine whose reply is used is a per-goroutine call record       *)
(* (spawned -> sent -> reply); a fire-and-forget call is a record in net.  *)
(***************************************************************************)
EXTENDS Integers, Sequences, FiniteSets, TLC

(***************************************************************************)
(* Deployment data.                                                        *)
(***************************************************************************)
\* --id values of the launch loop; main derives the rank from the suffix.
NodeIDs == <<"Node1", "Node2", "Node3", "Node4">>

\* The addresses of the --peers list of the launch script, by rank.
PeerAddrs == <<"localhost:8001", "localhost:8002", "localhost:8003", "localhost:8004">>

Nodes == DOMAIN NodeIDs

\* strconv.Atoi(strings.TrimPrefix(id, "Node")): 0 stands for the error.
RankOfID(id) ==
    IF \E n \in Nodes : NodeIDs[n] = id
    THEN CHOOSE n \in Nodes : NodeIDs[n] = id
    ELSE 0

\* rpc.DialHTTP("tcp", address): the node listening there, 0 when the dial
\* fails. A node id such as "Node1" is no host:port and never resolves.
Resolve(address) ==
    IF \E n \in Nodes : PeerAddrs[n] = address
    THEN CHOOSE n \in Nodes : PeerAddrs[n] = address
    ELSE 0

\* Go's string order on node ids, for the ids of the deployment (one digit).
IdLess(a, b) == RankOfID(a) < RankOfID(b)

(***************************************************************************)
(* Bounds of the model.                                                    *)
(***************************************************************************)
\* Concurrent callers (HTTP / RPC handler goroutines) per node.
MaxProcs == 2
\* RequestCS calls in one behaviour of the mutual-exclusion specifications.
MaxRequests == 3
\* Nodes of the cluster of the mutual-exclusion specifications.
RAClusterSize == 2
\* RequestCS calls in one behaviour of the fair mutual-exclusion specification.
MaxFairRequests == 2

Procs == 1..MaxProcs

Max(a, b) == IF a > b THEN a ELSE b

Range(f) == {f[i] : i \in DOMAIN f}

(***************************************************************************)
(* Items and queue state.                                                  *)
(***************************************************************************)
NoItem == [ID |-> "", StartingPrice |-> 0, DurationSec |-> 0]

\* The seed list (name, description and emoji are carried along unread).
defaultItems ==
    << [ID |-> "item-1", StartingPrice |-> 500,  DurationSec |-> 120],
       [ID |-> "item-2", StartingPrice |-> 300,  DurationSec |-> 120],
       [ID |-> "item-3", StartingPrice |-> 200,  DurationSec |-> 120],
       [ID |-> "item-4", StartingPrice |-> 1000, DurationSec |-> 120],
       [ID |-> "item-5", StartingPrice |-> 800,  DurationSec |-> 120],
       [ID |-> "item-6", StartingPrice |-> 1500, DurationSec |-> 120] >>

freshQueue ==
    [ Queue             |-> Tail(defaultItems),
      CurrentItem       |-> Head(defaultItems),
      CurrentHighestBid |-> Head(defaultItems).StartingPrice - 1,
      CurrentWinner     |-> "",
      DeadlineUnix      |-> 0,
      Active            |-> TRUE,
      Results           |-> <<>> ]

VARIABLES
    peers,        \* Node.Peers: the --peers list of each node
    alive,        \* whether the node's process is running
    now,          \* wall clock, seconds (time.Now().Unix())
    clock,        \* LamportClock.time of each node
    ra,           \* RAManager of each node
    queue,        \* ItemQueueState of each node
    coordinator,  \* Node.Coordinator of each node
    pendingTxns,  \* Node.PendingTxns of each node
    proc,         \* the caller goroutines of each node
    net,          \* fire-and-forget calls in flight
    bcast,        \* broadcastQueueState calls of each node that have not built their snapshot yet
    elec,         \* the StartElection goroutine of each node
    timers,       \* runItemTimer goroutines: <<node, itemID, deadlineUnix>>
    ckpt,         \* the checkpoint file of each node
    cpg,          \* initiateGlobalCheckpoint goroutines of each node that have not run yet
    pull,         \* the GetQueueState call of each node's periodicStateSync
    hist,         \* history: what the protocol has reported so far
    budget        \* what is left of the bounded budgets of a behaviour

vars == <<peers, alive, now, clock, ra, queue, coordinator, pendingTxns,
          proc, net, bcast, elec, timers, ckpt, cpg, pull, hist, budget>>

\* Groups of variables, for the frame of each action.
electVars == <<coordinator, elec>>
auxVars == <<timers, ckpt, cpg, pull>>
storeVars == <<queue, pendingTxns, bcast, hist, auxVars>>

(***************************************************************************)
(* Lamport clock.                                                          *)
(***************************************************************************)
Tick(t) == t + 1

Update(t, receivedTime) == Max(t, receivedTime) + 1

(***************************************************************************)
(* Ricart-Agrawala.                                                        *)
(***************************************************************************)
NewRAManager ==
    [ RequestTime   |-> 0,
      RequestingCS  |-> FALSE,
      RepliesNeeded |-> 0,
      DeferredReply |-> <<>>,
      ReplyChan     |-> 0 ]

NoCall == [st |-> "none", ts |-> 0]

NoBid == [Amount |-> 0, Bidder |-> ""]

NoTxn == <<"", 0>>

\* The call handleBidRequest makes for a bid it forwards: the address it
\* dials and the caller slot SubmitBidToCoordinator runs ProposeBid in.
NoForward == [to |-> "", slot |-> 0]

\* The locals of a call of a LamportClock method: its argument, the time it
\* found when it got the lock (old), what c.time++ has read (t) and the value
\* it returns (ret).
NoClockCall == [receivedTime |-> 0, old |-> 0, t |-> 0, ret |-> 0]

\* The locals of a saveCheckpoint call: the document b, where the file its
\* descriptor is open on is now ("tmp", "path", or "gone" when no name is left
\* for it), and the parts of b written so far.
NoSave == [doc |-> [null |-> TRUE], fd |-> "", part |-> 0]

\* A caller goroutine: where it is (pc), the RequestCS loop counter (got) and
\* request goroutines (rac), and the locals of ProposeBid. tally is history:
\* the votes the collect loop has taken, with the node that cast each. op and
\* item are the operation and the argument of an admin call, clk the locals
\* of a clock call, save those of a saveCheckpoint call.
IdleProc ==
    [ pc  |-> "idle",
      got |-> 0,
      rac |-> <<>>,
      bid |-> NoBid,
      txnID |-> NoTxn,
      quorum |-> 0,
      votes |-> 0,
      pendingResponses |-> 0,
      prc |-> <<>>,
      voteCh |-> <<>>,
      tally |-> <<>>,
      ok |-> FALSE,
      message |-> "",
      op |-> "",
      item |-> NoItem,
      clk |-> NoClockCall,
      save |-> NoSave,
      fwd |-> NoForward ]

\* ReceiveRequest's decision, for the manager r of the node with id myID.
DeferReply(r, myID, ts, from) ==
    r.RequestingCS /\ (r.RequestTime < ts \/ (r.RequestTime = ts /\ IdLess(myID, from)))

\* HandleRAReply on manager r: the send on ReplyChan blocks while it is full.
CanHandleRAReply(r, cap) == r.RepliesNeeded - 1 >= 0 => r.ReplyChan < cap

HandleRAReply(r) ==
    [r EXCEPT !.RepliesNeeded = @ - 1,
              !.ReplyChan = IF r.RepliesNeeded - 1 >= 0 THEN @ + 1 ELSE @]

\* A caller slot is free when no call runs in it and the goroutines of its
\* last call have ended. A slot at "done" holds what its last call returned.
SlotFree(n, p) ==
    /\ proc[n][p].pc \in {"idle", "done"}
    /\ \A k \in DOMAIN proc[n][p].rac : proc[n][p].rac[k].st = "none"
    /\ \A k \in DOMAIN proc[n][p].prc : proc[n][p].prc[k].st = "none"

\* Caller slots are interchangeable: a new call takes the lowest free slot
\* among those the behaviour may use.
FirstIdle(n, p) ==
    /\ p <= budget.slots
    /\ SlotFree(n, p)
    /\ \A q \in Procs : q < p => ~SlotFree(n, q)

\* RequestCS up to the start of the wait: the locked section and the spawn
\* of one request goroutine per peer. The timestamp of a request is what
\* Clock.Tick() returned to its caller (clk.ret of the caller's slot).
RequestingRA(r, t, npeers) ==
    [r EXCEPT !.RequestingCS = TRUE, !.RequestTime = t, !.RepliesNeeded = npeers]

WaitingProc(pr, npeers) ==
    [pr EXCEPT !.pc = IF npeers = 0 THEN "cs" ELSE "wait",
               !.got = 0,
               !.rac = [k \in 1..npeers |-> [st |-> "spawned", ts |-> 0]]]

RequestCS(n, p) ==
    /\ alive[n]
    /\ FirstIdle(n, p)
    /\ budget.requests > 0
    /\ budget' = [budget EXCEPT !.requests = @ - 1]
    /\ clock' = [clock EXCEPT ![n] = Tick(@)]
    /\ ra' = [ra EXCEPT ![n] = RequestingRA(@, Tick(clock[n]), Len(peers[n]))]
    /\ proc' = [proc EXCEPT ![n][p] =
                  WaitingProc([IdleProc EXCEPT !.clk.ret = Tick(clock[n])], Len(peers[n]))]
    /\ UNCHANGED <<peers, alive, now, electVars, storeVars, net>>

\* A request goroutine builds its message: it reads ra.RequestTime without
\* the lock, so it sees whatever a concurrent RequestCS has stored by then.
RASend(n, p, k) ==
    /\ alive[n]
    /\ k \in DOMAIN proc[n][p].rac
    /\ proc[n][p].rac[k].st = "spawned"
    /\ proc' = [proc EXCEPT ![n][p].rac[k] = [st |-> "sent", ts |-> ra[n].RequestTime]]
    /\ UNCHANGED <<peers, alive, now, clock, ra, electVars, storeVars, net, budget>>

\* The call reaches peers[n][k]: HandleRARequest runs there, or the dial fails.
RAReceive(n, p, k) ==
    /\ alive[n]
    /\ k \in DOMAIN proc[n][p].rac
    /\ proc[n][p].rac[k].st = "sent"
    /\ LET m  == Resolve(peers[n][k])
           ts == proc[n][p].rac[k].ts
       IN IF m = 0 \/ ~alive[m]
          THEN \* err != nil: the goroutine will call HandleRAReply
               /\ proc' = [proc EXCEPT ![n][p].rac[k].st = "reply"]
               /\ UNCHANGED <<clock, ra>>
          ELSE /\ clock' = [clock EXCEPT ![m] = Update(@, ts)]
               /\ IF DeferReply(ra[m], NodeIDs[m], ts, NodeIDs[n])
                  THEN /\ ra' = [ra EXCEPT ![m].DeferredReply = Append(@, NodeIDs[n])]
                       /\ proc' = [proc EXCEPT ![n][p].rac[k] = NoCall]
                  ELSE /\ ra' = ra
                       /\ proc' = [proc EXCEPT ![n][p].rac[k].st = "reply"]
    /\ UNCHANGED <<peers, alive, now, electVars, storeVars, net, budget>>

\* The goroutine got an error or reply = true and calls HandleRAReply.
RAReplyDone(n, p, k) ==
    /\ alive[n]
    /\ k \in DOMAIN proc[n][p].rac
    /\ proc[n][p].rac[k].st = "reply"
    /\ CanHandleRAReply(ra[n], Len(peers[n]))
    /\ ra' = [ra EXCEPT ![n] = HandleRAReply(@)]
    /\ proc' = [proc EXCEPT ![n][p].rac[k] = NoCall]
    /\ UNCHANGED <<peers, alive, now, clock, electVars, storeVars, net, budget>>

\* One iteration of RequestCS's wait loop: <-ra.ReplyChan.
TakeToken(n, p) ==
    /\ alive[n]
    /\ proc[n][p].pc = "wait"
    /\ ra[n].ReplyChan > 0
    /\ ra' = [ra EXCEPT ![n].ReplyChan = @ - 1]
    /\ proc' = [proc EXCEPT ![n][p].got = @ + 1,
                            ![n][p].pc = IF proc[n][p].got + 1 = Len(peers[n]) THEN "cs" ELSE "wait"]
    /\ UNCHANGED <<peers, alive, now, clock, electVars, storeVars, net, budget>>

\* The deferred-reply calls ReleaseCS dispatches: one per deferred entry,
\* dialled at the entry itself, which is the requester's node id.
DeferredCalls(n) ==
    { [type |-> "RADeferredReply", to |-> ra[n].DeferredReply[i], from |-> NodeIDs[n]] :
        i \in DOMAIN ra[n].DeferredReply }

ReleasedRA(r) == [r EXCEPT !.RequestingCS = FALSE, !.DeferredReply = <<>>]

ReleaseCS(n, p) ==
    /\ alive[n]
    /\ proc[n][p].pc = "cs"
    /\ proc[n][p].bid = NoBid
    /\ proc[n][p].op = ""
    /\ ra' = [ra EXCEPT ![n] = ReleasedRA(@)]
    /\ net' = net \cup DeferredCalls(n)
    /\ proc' = [proc EXCEPT ![n][p].pc = "idle", ![n][p].got = 0, ![n][p].clk = NoClockCall]
    /\ UNCHANGED <<peers, alive, now, clock, electVars, storeVars, budget>>

\* A deferred-reply call resolves: HandleRADeferredReply at the dialled node,
\* or a dial error, which ReleaseCS ignores.
DeliverDeferredReply(msg) ==
    /\ msg \in net
    /\ msg.type = "RADeferredReply"
    /\ LET m == Resolve(msg.to)
       IN IF m # 0 /\ alive[m]
          THEN /\ CanHandleRAReply(ra[m], Len(peers[m]))
               /\ ra' = [ra EXCEPT ![m] = HandleRAReply(@)]
          ELSE ra' = ra
    /\ net' = net \ {msg}
    /\ UNCHANGED <<peers, alive, now, clock, electVars, storeVars, proc, budget>>

(***************************************************************************)
(* Election, checkpoint and history records at their zero values.          *)
(***************************************************************************)
\* StartElection calls that run at once on one node.
MaxElecProcs == 2

ElecSlots == 1..MaxElecProcs

\* No StartElection runs and none of its calls is in flight.
NoInstance == [st |-> "none", receivedOK |-> FALSE, mon |-> FALSE, calls |-> <<>>]

\* inst: the StartElection calls of the node; obc: spawned OnBecomeCoordinator
\* calls that have not run yet.
NoElection == [inst |-> [e \in ElecSlots |-> NoInstance], obc |-> 0]

\* A file of the checkpoint directory: whether the name exists, and its
\* bytes as the parts the operating system writes them in, each the i-th part
\* of some JSON document.
NoFile == [exists |-> FALSE, content |-> <<>>]

\* The checkpoint files of a node: the file at checkpointPath, and the file
\* at that path with ".tmp" appended.
NoCheckpoint == [exists |-> FALSE, content |-> <<>>, tmp |-> NoFile]

\* No GetQueueState call of periodicStateSync is in flight.
NoPull == [st |-> "none"]

\* committed: the bids whose ProposeBid returned "Bid committed by quorum";
\* beforeCrash: those of them reported before some node crashed; clockOps:
\* the finished calls of clock methods, in the order of their locked sections.
NoHistory == [committed |-> {}, beforeCrash |-> {}, clockOps |-> <<>>, swept |-> {}]

\* allCalls: 1 when the ELECTION calls to peers whose rank is not higher are
\* followed as well, 0 when they are left out.
NoBudget ==
    [requests |-> 0, slots |-> 0, bids |-> 0, starts |-> 0, crashes |-> 0,
     elections |-> 0, checkpoints |-> 0, admin |-> 0, clockOps |-> 0, extends |-> 0,
     allCalls |-> 0]

\* isCoordinator as the bid, timer and checkpoint code computes it.
IsCoordinator(n) == coordinator[n] = "" \/ coordinator[n] = NodeIDs[n]

(***************************************************************************)
(* Bids: validation, pending transactions, decisions, snapshots.           *)
(***************************************************************************)
\* canPrepareBid with the deadline itself still open.
canPrepareBidLate(q, bid, t) ==
    /\ q.Active
    /\ q.CurrentItem # NoItem
    /\ bid.Amount > q.CurrentHighestBid
    /\ t <= q.DeadlineUnix

canPrepareBid(q, bid, t) ==
    /\ q.Active
    /\ q.CurrentItem # NoItem
    /\ bid.Amount > q.CurrentHighestBid
    /\ t < q.DeadlineUnix

HasPending(pend, txnID) == \E x \in pend : x.TxnID = txnID

\* PendingTxns is a map keyed by the transaction id.
rememberPendingTxn(pend, txnID, bid, t) ==
    {x \in pend : x.TxnID # txnID} \cup {[TxnID |-> txnID, Bid |-> bid, PreparedAt |-> t]}

\* applyDecision: the bid it decides on, the map and the queue it leaves.
DecisionBid(pend, txnID, fallbackBid) ==
    IF HasPending(pend, txnID)
    THEN (CHOOSE x \in pend : x.TxnID = txnID).Bid
    ELSE fallbackBid

DecidedPending(pend, txnID) == {x \in pend : x.TxnID # txnID}

\* applyDecision without the return on an abort.
DecidedQueueAlways(q, commit, bid) ==
    IF q.Active /\ q.CurrentItem # NoItem /\ bid.Amount > q.CurrentHighestBid
    THEN [q EXCEPT !.CurrentHighestBid = bid.Amount, !.CurrentWinner = bid.Bidder]
    ELSE q

DecidedQueue(q, commit, bid) ==
    IF commit /\ q.Active /\ q.CurrentItem # NoItem /\ bid.Amount > q.CurrentHighestBid
    THEN [q EXCEPT !.CurrentHighestBid = bid.Amount, !.CurrentWinner = bid.Bidder]
    ELSE q

buildQueueSnapshot(q) ==
    [ CurrentItem       |-> q.CurrentItem,
      CurrentHighestBid |-> q.CurrentHighestBid,
      CurrentWinner     |-> q.CurrentWinner,
      DeadlineUnix      |-> q.DeadlineUnix,
      Active            |-> q.Active,
      QueueLen          |-> Len(q.Queue),
      Results           |-> q.Results,
      RemainingItems    |-> q.Queue ]

\* applyQueueSnapshot with the snapshot's results appended to the local ones.
applyQueueSnapshotAppend(q, snap) ==
    [ Queue             |-> snap.RemainingItems,
      CurrentItem       |-> snap.CurrentItem,
      CurrentHighestBid |-> snap.CurrentHighestBid,
      CurrentWinner     |-> snap.CurrentWinner,
      DeadlineUnix      |-> snap.DeadlineUnix,
      Active            |-> snap.Active,
      Results           |-> q.Results \o snap.Results ]

applyQueueSnapshot(q, snap) ==
    [ Queue             |-> snap.RemainingItems,
      CurrentItem       |-> snap.CurrentItem,
      CurrentHighestBid |-> snap.CurrentHighestBid,
      CurrentWinner     |-> snap.CurrentWinner,
      DeadlineUnix      |-> snap.DeadlineUnix,
      Active            |-> snap.Active,
      Results           |-> IF Len(snap.Results) > Len(q.Results) THEN snap.Results ELSE q.Results ]

\* The calls of one fan-out loop over n.Peers.
FanOut(n, type, body) ==
    { [type |-> type, to |-> peers[n][k], from |-> NodeIDs[n], body |-> body] :
        k \in DOMAIN peers[n] }

(***************************************************************************)
(* ProposeBid.                                                             *)
(***************************************************************************)
\* The amounts clients offer: the price the first item starts from and one
\* below it, which equals the highest bid a fresh item carries.
BidAmounts ==
    { Head(defaultItems).StartingPrice - 1,
      Head(defaultItems).StartingPrice }

\* The clients: the i-th bid left in a behaviour comes from Bidders[i]. The
\* bidder is the form value of the request, any string the client chooses,
\* among them the label finalizeCurrentItemLocked gives an unsold item.
Bidders == <<"alice", "No bids">>

\* A quorum of more than half of the peer list.
QuorumOfPeers(npeers) == npeers \div 2 + 1

\* The quorum ProposeBid computes (integer division).
Quorum(npeers) == (npeers + 1) \div 2 + 1

\* The collect loop goes on while this holds.
Collecting(pr) ==
    /\ pr.pendingResponses > 0
    /\ ~(pr.votes >= pr.quorum \/ pr.votes + pr.pendingResponses < pr.quorum)

\* ProposeBid in slot p of node n: the fast-fail check and, when it passes,
\* RequestCS up to the start of the wait. The function itself does not look
\* at Coordinator; base is the state of the calls the step starts from.
ProposeBidFrom(base, n, p, amount, bidder) ==
    /\ alive[n]
    /\ FirstIdle(n, p)
    /\ budget.bids > 0
    /\ bidder = Bidders[budget.bids]
    /\ budget' = [budget EXCEPT !.bids = @ - 1]
    /\ LET bid == [Amount |-> amount, Bidder |-> bidder]
       IN IF ~canPrepareBid(queue[n], bid, now)
          THEN /\ proc' = [base EXCEPT ![n][p] =
                             [IdleProc EXCEPT !.pc = "done", !.bid = bid, !.ok = FALSE,
                                              !.message = "Bid must be higher than current highest bid (or auction inactive)"]]
               /\ UNCHANGED <<clock, ra>>
          ELSE /\ clock' = [clock EXCEPT ![n] = Tick(@)]
               /\ ra' = [ra EXCEPT ![n] = RequestingRA(@, Tick(clock[n]), Len(peers[n]))]
               /\ proc' = [base EXCEPT ![n][p] =
                             WaitingProc([IdleProc EXCEPT !.bid = bid], Len(peers[n]))]
    /\ UNCHANGED <<peers, alive, now, electVars, storeVars, net>>

\* A bid reaches a node that takes itself for the coordinator (its own HTTP
\* handler or SubmitBidToCoordinator).
ProposeBid(n, p, amount, bidder) ==
    IsCoordinator(n) /\ ProposeBidFrom(proc, n, p, amount, bidder)

\* In the critical section: the re-check, and when it passes the transaction
\* id, the quorum, the pending entry and the spawn of the PREPARE goroutines.
\* When it fails the deferred ReleaseCS runs as ProposeBid returns.
\* The slot keeps the item the re-check has found open (item), which the code
\* does not keep.
PB_Prepare(n, p) ==
    /\ alive[n]
    /\ proc[n][p].pc = "cs"
    /\ proc[n][p].bid # NoBid
    /\ IF ~canPrepareBid(queue[n], proc[n][p].bid, now)
       THEN /\ ra' = [ra EXCEPT ![n] = ReleasedRA(@)]
            /\ net' = net \cup DeferredCalls(n)
            /\ proc' = [proc EXCEPT ![n][p] =
                          [@ EXCEPT !.pc = "done", !.ok = FALSE,
                                    !.message = "Bid became stale during coordination"]]
            /\ UNCHANGED <<clock, pendingTxns>>
       ELSE LET txnID == <<NodeIDs[n], Tick(clock[n])>>
            IN /\ clock' = [clock EXCEPT ![n] = Tick(@)]
               /\ pendingTxns' = [pendingTxns EXCEPT ![n] =
                                    rememberPendingTxn(@, txnID, proc[n][p].bid, now)]
               /\ proc' = [proc EXCEPT ![n][p] =
                             [@ EXCEPT !.pc = "collect",
                                       !.item = queue[n].CurrentItem,
                                       !.txnID = txnID,
                                       !.quorum = Quorum(Len(peers[n])),
                                       !.votes = 1,
                                       !.pendingResponses = Len(peers[n]),
                                       !.prc = [k \in 1..Len(peers[n]) |-> [st |-> "spawned", ts |-> 0, yes |-> FALSE]],
                                       !.voteCh = <<>>,
                                       !.tally = <<>>]]
               /\ UNCHANGED <<ra, net>>
    /\ UNCHANGED <<peers, alive, now, electVars, queue, bcast, auxVars, hist, budget>>

\* A PREPARE goroutine builds its arguments: Timestamp is a tick of the clock.
PB_PrepSend(n, p, k) ==
    /\ alive[n]
    /\ k \in DOMAIN proc[n][p].prc
    /\ proc[n][p].prc[k].st = "spawned"
    /\ clock' = [clock EXCEPT ![n] = Tick(@)]
    /\ proc' = [proc EXCEPT ![n][p].prc[k] = [st |-> "sent", ts |-> Tick(clock[n]), yes |-> FALSE]]
    /\ UNCHANGED <<peers, alive, now, ra, electVars, storeVars, net, budget>>

\* The call reaches peers[n][k]: PrepareBid runs there, or the call fails.
\* Once ProposeBid has returned nobody reads voteCh, and the goroutine's
\* send on it (buffered for every peer) is its unobserved last step.
PrepReplied(pr, k, yes) ==
    IF pr.pc = "collect"
    THEN [pr EXCEPT !.prc[k] = [@ EXCEPT !.st = "reply", !.yes = yes]]
    ELSE [pr EXCEPT !.prc[k] = [st |-> "none", ts |-> 0, yes |-> FALSE]]

\* PrepareBid that records the pending entry before it looks at the bid.
PB_PrepReceiveRemembers(n, p, k) ==
    /\ alive[n]
    /\ k \in DOMAIN proc[n][p].prc
    /\ proc[n][p].prc[k].st = "sent"
    /\ LET m == Resolve(peers[n][k])
           c == proc[n][p].prc[k]
       IN IF m = 0 \/ ~alive[m]
          THEN /\ proc' = [proc EXCEPT ![n][p] = PrepReplied(@, k, FALSE)]
               /\ UNCHANGED <<clock, pendingTxns>>
          ELSE /\ clock' = [clock EXCEPT ![m] = Update(@, c.ts)]
               /\ pendingTxns' = [pendingTxns EXCEPT ![m] =
                                    rememberPendingTxn(@, proc[n][p].txnID, proc[n][p].bid, now)]
               /\ proc' = [proc EXCEPT ![n][p] =
                             PrepReplied(@, k, canPrepareBid(queue[m], proc[n][p].bid, now))]
    /\ UNCHANGED <<peers, alive, now, ra, electVars, queue, bcast, auxVars, hist, net, budget>>

PB_PrepReceive(n, p, k) ==
    /\ alive[n]
    /\ k \in DOMAIN proc[n][p].prc
    /\ proc[n][p].prc[k].st = "sent"
    /\ LET m == Resolve(peers[n][k])
           c == proc[n][p].prc[k]
       IN IF m = 0 \/ ~alive[m]
          THEN /\ proc' = [proc EXCEPT ![n][p] = PrepReplied(@, k, FALSE)]
               /\ UNCHANGED <<clock, pendingTxns>>
          ELSE /\ clock' = [clock EXCEPT ![m] = Update(@, c.ts)]
               /\ IF canPrepareBid(queue[m], proc[n][p].bid, now)
                  THEN /\ pendingTxns' = [pendingTxns EXCEPT ![m] =
                                            rememberPendingTxn(@, proc[n][p].txnID, proc[n][p].bid, now)]
                       /\ proc' = [proc EXCEPT ![n][p] = PrepReplied(@, k, TRUE)]
                  ELSE /\ pendingTxns' = pendingTxns
                       /\ proc' = [proc EXCEPT ![n][p] = PrepReplied(@, k, FALSE)]
    /\ UNCHANGED <<peers, alive, now, ra, electVars, queue, bcast, auxVars, hist, net, budget>>

\* The goroutine puts its result on voteCh and ends.
PB_PrepReply(n, p, k) ==
    /\ alive[n]
    /\ k \in DOMAIN proc[n][p].prc
    /\ proc[n][p].prc[k].st = "reply"
    /\ proc' = [proc EXCEPT ![n][p].prc[k] = [st |-> "none", ts |-> 0, yes |-> FALSE],
                            ![n][p].voteCh =
                                IF proc[n][p].pc = "collect"
                                THEN Append(@, [yes |-> proc[n][p].prc[k].yes, from |-> peers[n][k]])
                                ELSE @]
    /\ UNCHANGED <<peers, alive, now, clock, ra, electVars, storeVars, net, budget>>

\* The collect loop takes a result from voteCh.
PB_CollectVote(n, p) ==
    /\ alive[n]
    /\ proc[n][p].pc = "collect"
    /\ Collecting(proc[n][p])
    /\ proc[n][p].voteCh # <<>>
    /\ LET result == Head(proc[n][p].voteCh)
       IN proc' = [proc EXCEPT ![n][p] =
                     [@ EXCEPT !.voteCh = Tail(@),
                               !.pendingResponses = @ - 1,
                               !.votes = IF result.yes THEN @ + 1 ELSE @,
                               !.tally = Append(@, result)]]
    /\ UNCHANGED <<peers, alive, now, clock, ra, electVars, storeVars, net, budget>>

\* A vote timer that never fires.
PB_VoteTimeoutNever(n, p) ==
    /\ alive[n]
    /\ proc[n][p].pc = "collect"
    /\ Collecting(proc[n][p])
    /\ UNCHANGED vars

\* The vote timer fires first.
PB_VoteTimeout(n, p) ==
    /\ alive[n]
    /\ proc[n][p].pc = "collect"
    /\ Collecting(proc[n][p])
    /\ proc' = [proc EXCEPT ![n][p].pendingResponses = 0]
    /\ UNCHANGED <<peers, alive, now, clock, ra, electVars, storeVars, net, budget>>

\* Phase 2 and the return: applyDecision on the coordinator, the DECIDE
\* fan-out, on commit the spawn of broadcastQueueState, and the deferred
\* ReleaseCS.
PB_Decide(n, p) ==
    /\ alive[n]
    /\ proc[n][p].pc = "collect"
    /\ ~Collecting(proc[n][p])
    /\ LET pr     == proc[n][p]
           commit == pr.votes >= pr.quorum
           bid    == DecisionBid(pendingTxns[n], pr.txnID, pr.bid)
           decision == [TxnID |-> pr.txnID, Commit |-> commit, Bid |-> pr.bid, Leader |-> NodeIDs[n]]
       IN /\ pendingTxns' = [pendingTxns EXCEPT ![n] = DecidedPending(@, pr.txnID)]
          /\ queue' = [queue EXCEPT ![n] = DecidedQueue(@, commit, bid)]
          /\ net' = net \cup FanOut(n, "DecideBid", decision) \cup DeferredCalls(n)
          /\ bcast' = [bcast EXCEPT ![n] = IF commit THEN @ + 1 ELSE @]
          /\ hist' = [hist EXCEPT !.committed =
                        IF commit THEN @ \cup {[Item |-> queue[n].CurrentItem.ID, Bid |-> pr.bid]} ELSE @]
          /\ proc' = [proc EXCEPT ![n][p] =
                        [@ EXCEPT !.pc = "done", !.ok = commit,
                                  !.message = IF commit THEN "Bid committed by quorum"
                                              ELSE "Bid aborted: quorum not reached"]]
    /\ ra' = [ra EXCEPT ![n] = ReleasedRA(@)]
    /\ UNCHANGED <<peers, alive, now, clock, electVars, auxVars, budget>>

\* A DECIDE call resolves: DecideBid at the dialled node, or an ignored error.
DeliverDecide(msg) ==
    /\ msg \in net
    /\ msg.type = "DecideBid"
    /\ LET m == Resolve(msg.to)
           d == msg.body
       IN IF m # 0 /\ alive[m]
          THEN /\ pendingTxns' = [pendingTxns EXCEPT ![m] = DecidedPending(@, d.TxnID)]
               /\ queue' = [queue EXCEPT ![m] =
                              DecidedQueue(@, d.Commit, DecisionBid(pendingTxns[m], d.TxnID, d.Bid))]
          ELSE UNCHANGED <<pendingTxns, queue>>
    /\ net' = net \ {msg}
    /\ UNCHANGED <<peers, alive, now, clock, ra, electVars, bcast, auxVars, hist, proc, budget>>

\* preparedTxnTTL, in seconds.
preparedTxnTTL == 8

\* The entries a tick of abortStalePreparedTxns finds older than the TTL at
\* second t.
StaleTxns(pend, t) == {x \in pend : t - x.PreparedAt > preparedTxnTTL}

\* A ticker that finds the stale entries and deletes none.
abortStalePreparedTxnsNever(n) ==
    /\ alive[n]
    /\ StaleTxns(pendingTxns[n], now) # {}
    /\ UNCHANGED vars

\* A tick of abortStalePreparedTxns on node n that finds stale entries
\* deletes them; a tick that finds none changes nothing.
abortStalePreparedTxns(n) ==
    /\ alive[n]
    /\ StaleTxns(pendingTxns[n], now) # {}
    /\ pendingTxns' = [pendingTxns EXCEPT ![n] = @ \ StaleTxns(@, now)]
    /\ hist' = [hist EXCEPT !.swept = @ \cup {<<n, x.TxnID>> : x \in StaleTxns(pendingTxns[n], now)}]
    /\ UNCHANGED <<peers, alive, now, clock, ra, electVars, queue, bcast, auxVars, proc, net, budget>>

\* Time passes to the first second at which an entry of a running node is
\* older than the TTL.
TTLPasses(t) ==
    /\ \E n \in Nodes : alive[n] /\ \E x \in pendingTxns[n] : t = x.PreparedAt + preparedTxnTTL + 1
    /\ t > now
    /\ now' = t
    /\ UNCHANGED <<peers, alive, clock, ra, electVars, storeVars, proc, net, budget>>

\* A spawned broadcastQueueState runs: it builds the snapshot of the state
\* the node has by now and fans it out.
BroadcastQueueState(n) ==
    /\ alive[n]
    /\ bcast[n] > 0
    /\ bcast' = [bcast EXCEPT ![n] = @ - 1]
    /\ net' = net \cup FanOut(n, "SyncQueueState", buildQueueSnapshot(queue[n]))
    /\ UNCHANGED <<peers, alive, now, clock, ra, electVars, queue, pendingTxns, auxVars, hist, proc, budget>>

\* A snapshot push resolves: SyncQueueState at the dialled node, or an
\* ignored error.
DeliverSync(msg) ==
    /\ msg \in net
    /\ msg.type = "SyncQueueState"
    /\ LET m == Resolve(msg.to)
       IN IF m # 0 /\ alive[m]
          THEN queue' = [queue EXCEPT ![m] = applyQueueSnapshot(@, msg.body)]
          ELSE queue' = queue
    /\ net' = net \ {msg}
    /\ UNCHANGED <<peers, alive, now, clock, ra, electVars, pendingTxns, bcast, auxVars, hist, proc, budget>>

(***************************************************************************)
(* Node start and crash.                                                   *)
(***************************************************************************)
\* NewNode's restore without the results.
RestoredQueueNoResults(cp) ==
    [ Queue             |-> cp.RemainingQueue,
      CurrentItem       |-> cp.CurrentItem,
      CurrentHighestBid |-> cp.CurrentHighestBid,
      CurrentWinner     |-> cp.CurrentWinner,
      DeadlineUnix      |-> cp.DeadlineUnix,
      Active            |-> cp.Active,
      Results           |-> <<>> ]

\* The queue NewNode builds from a checkpoint.
RestoredQueue(cp) ==
    [ Queue             |-> cp.RemainingQueue,
      CurrentItem       |-> cp.CurrentItem,
      CurrentHighestBid |-> cp.CurrentHighestBid,
      CurrentWinner     |-> cp.CurrentWinner,
      DeadlineUnix      |-> cp.DeadlineUnix,
      Active            |-> cp.Active,
      Results           |-> cp.Results ]

\* The record takeLocalCheckpoint builds for a node with queue q and clock c
\* at second t (NodeID names the file).
CheckpointOf(q, c, t) ==
    [ LamportTime       |-> c,
      LamportStamp      |-> c,
      CurrentItem       |-> q.CurrentItem,
      RemainingQueue    |-> q.Queue,
      Results           |-> q.Results,
      CurrentHighestBid |-> q.CurrentHighestBid,
      CurrentWinner     |-> q.CurrentWinner,
      DeadlineUnix      |-> q.DeadlineUnix,
      Active            |-> q.Active,
      CheckpointTime    |-> t ]

\* encoding/json: a nil pointer and a nil slice encode as null, and null
\* decodes to nil; takeLocalCheckpoint copies its lists with
\* append([]T(nil), list...), which is nil for an empty list.
JsonNull == [null |-> TRUE]

JsonValue(x) == [null |-> FALSE, value |-> x]

JsonPointer(item) == IF item = NoItem THEN JsonNull ELSE JsonValue(item)

JsonSlice(list) == IF list = <<>> THEN JsonNull ELSE JsonValue(list)

\* json.MarshalIndent(data): the document, by the json tags of CheckpointData.
MarshalCheckpoint(data) ==
    [ lamportTime       |-> data.LamportTime,
      currentItem       |-> JsonPointer(data.CurrentItem),
      remainingQueue    |-> JsonSlice(data.RemainingQueue),
      results           |-> JsonSlice(data.Results),
      currentHighestBid |-> data.CurrentHighestBid,
      currentWinner     |-> data.CurrentWinner,
      deadlineUnix      |-> data.DeadlineUnix,
      active            |-> data.Active,
      checkpointTime    |-> data.CheckpointTime,
      lamportStamp      |-> data.LamportStamp ]

\* json.Unmarshal(b, &data) on a zero CheckpointData.
UnmarshalCheckpoint(doc) ==
    [ LamportTime       |-> doc.lamportTime,
      LamportStamp      |-> doc.lamportStamp,
      CurrentItem       |-> IF doc.currentItem.null THEN NoItem ELSE doc.currentItem.value,
      RemainingQueue    |-> IF doc.remainingQueue.null THEN <<>> ELSE doc.remainingQueue.value,
      Results           |-> IF doc.results.null THEN <<>> ELSE doc.results.value,
      CurrentHighestBid |-> doc.currentHighestBid,
      CurrentWinner     |-> doc.currentWinner,
      DeadlineUnix      |-> doc.deadlineUnix,
      Active            |-> doc.active,
      CheckpointTime    |-> doc.checkpointTime ]

\* os.WriteFile hands the bytes to the operating system, which may write
\* them in parts.
FileParts == 2

\* The bytes of document doc.
BytesOf(doc) == [i \in 1..FileParts |-> [doc |-> doc, part |-> i]]

\* The bytes are one whole document.
WholeDocument(content) ==
    /\ Len(content) = FileParts
    /\ \A i \in 1..FileParts : content[i] = [doc |-> content[1].doc, part |-> i]

\* saveCheckpoint when no other writer of the node is inside it: the file it
\* leaves at checkpointPath.
saveCheckpoint(data) ==
    [exists |-> TRUE, content |-> BytesOf(MarshalCheckpoint(data)), tmp |-> NoFile]

\* loadCheckpoint: (nil, nil) without a file, (nil, err) when the bytes do
\* not parse, (&data, nil) otherwise.
loadCheckpoint(file) ==
    IF ~file.exists THEN [cp |-> "nil", err |-> FALSE]
    ELSE IF ~WholeDocument(file.content) THEN [cp |-> "nil", err |-> TRUE]
    ELSE [cp |-> "data", err |-> FALSE, data |-> UnmarshalCheckpoint(file.content[1].doc)]

\* NewNode: the queue and the clock it builds from what loadCheckpoint returns.
NewNodeQueue(loaded) == IF loaded.cp = "data" THEN RestoredQueue(loaded.data) ELSE freshQueue

NewNodeClock(loaded) == IF loaded.cp = "data" THEN Update(0, loaded.data.LamportTime) ELSE 0

\* A StartElection call from its start to the end of its wait, and the
\* ELECTION calls it has made, one per peer. HandleElection on a node whose
\* rank is not higher answers false and changes nothing, so where
\* budget.allCalls is 0 only the calls to higher-ranked peers are followed.
StartedElection(n, mon) ==
    [ st |-> "run", receivedOK |-> FALSE, mon |-> mon,
      calls |-> [k \in 1..Len(peers[n]) |->
                   IF Resolve(peers[n][k]) > n \/ budget.allCalls = 1 THEN "sent" ELSE "none"] ]

ElecFree(n, e) ==
    /\ elec[n].inst[e].st = "none"
    /\ \A k \in DOMAIN elec[n].inst[e].calls : elec[n].inst[e].calls[k] = "none"

FirstFreeElec(n, e) ==
    /\ ElecFree(n, e)
    /\ \A f \in ElecSlots : f < e => ~ElecFree(n, f)

\* The process of node n starts: NewNode restores the checkpoint file if
\* there is one, Start serves RPCs, and MonitorLeader begins with an election.
StartNode(n) ==
    /\ ~alive[n]
    /\ peers[n] # <<>>
    /\ budget.starts > 0 /\ budget.elections > 0
    /\ budget' = [budget EXCEPT !.starts = @ - 1, !.elections = @ - 1]
    /\ alive' = [alive EXCEPT ![n] = TRUE]
    /\ queue' = [queue EXCEPT ![n] = NewNodeQueue(loadCheckpoint(ckpt[n]))]
    /\ clock' = [clock EXCEPT ![n] = NewNodeClock(loadCheckpoint(ckpt[n]))]
    /\ elec' = [elec EXCEPT ![n] = [NoElection EXCEPT !.inst[1] = StartedElection(n, TRUE)]]
    /\ UNCHANGED <<peers, now, ra, coordinator, pendingTxns, proc, net, bcast, hist, auxVars>>

\* The process of node n dies: its memory and goroutines are gone, its
\* checkpoint file and the calls it has already put on the wire stay.
Crash(n) ==
    /\ alive[n]
    /\ budget.crashes > 0
    /\ budget' = [budget EXCEPT !.crashes = @ - 1]
    /\ alive' = [alive EXCEPT ![n] = FALSE]
    /\ clock' = [clock EXCEPT ![n] = 0]
    /\ ra' = [ra EXCEPT ![n] = NewRAManager]
    /\ queue' = [queue EXCEPT ![n] = freshQueue]
    /\ coordinator' = [coordinator EXCEPT ![n] = ""]
    /\ pendingTxns' = [pendingTxns EXCEPT ![n] = {}]
    /\ proc' = [proc EXCEPT ![n] = [p \in Procs |-> IdleProc]]
    /\ elec' = [elec EXCEPT ![n] = NoElection]
    /\ bcast' = [bcast EXCEPT ![n] = 0]
    /\ cpg' = [cpg EXCEPT ![n] = 0]
    /\ pull' = [pull EXCEPT ![n] = NoPull]
    /\ timers' = {t \in timers : t[1] # n}
    /\ hist' = [hist EXCEPT !.beforeCrash = @ \cup hist.committed]
    /\ UNCHANGED <<peers, now, net, ckpt>>

(***************************************************************************)
(* Bully election.                                                         *)
(***************************************************************************)
\* An ELECTION call reaches peers[n][k]: HandleElection runs there, or the
\* call fails. A receiver of higher rank answers true and starts an
\* election of its own; the caller's goroutine sets receivedOK, which
\* StartElection reads if its wait has not ended yet. Any other receiver
\* answers false.
DeliverElection(n, e, k) ==
    /\ alive[n]
    /\ k \in DOMAIN elec[n].inst[e].calls
    /\ elec[n].inst[e].calls[k] = "sent"
    /\ LET m == Resolve(peers[n][k])
       IN IF m # 0 /\ alive[m] /\ m > n
          THEN /\ budget.elections > 0
               /\ budget' = [budget EXCEPT !.elections = @ - 1]
               /\ \E f \in ElecSlots :
                     /\ FirstFreeElec(m, f)
                     /\ elec' = [elec EXCEPT
                                   ![n].inst[e].calls[k] = "none",
                                   ![n].inst[e].receivedOK = (elec[n].inst[e].st = "run") \/ @,
                                   ![m].inst[f] = StartedElection(m, FALSE)]
          ELSE /\ elec' = [elec EXCEPT ![n].inst[e].calls[k] = "none"]
               /\ budget' = budget
    /\ UNCHANGED <<peers, alive, now, clock, ra, coordinator, storeVars, proc, net>>

\* The wait of StartElection ends and the node declares itself coordinator
\* whatever was answered.
DecideElectionAlways(n, e) ==
    /\ alive[n]
    /\ elec[n].inst[e].st = "run"
    /\ coordinator' = [coordinator EXCEPT ![n] = NodeIDs[n]]
    /\ net' = net \cup FanOut(n, "HandleCoordinator", [NodeID |-> NodeIDs[n], Rank |-> n])
    /\ elec' = [elec EXCEPT ![n].inst[e].st = "none",
                            ![n].inst[e].receivedOK = FALSE,
                            ![n].inst[e].mon = FALSE,
                            ![n].obc = @ + 1]
    /\ UNCHANGED <<peers, alive, now, clock, ra, storeVars, proc, budget>>

\* The wait of StartElection ends: without an OK the node declares itself
\* coordinator, fans COORDINATOR out, and spawns the heartbeat loop and
\* OnBecomeCoordinator.
DecideElection(n, e) ==
    /\ alive[n]
    /\ elec[n].inst[e].st = "run"
    /\ IF ~elec[n].inst[e].receivedOK
       THEN /\ coordinator' = [coordinator EXCEPT ![n] = NodeIDs[n]]
            /\ net' = net \cup FanOut(n, "HandleCoordinator", [NodeID |-> NodeIDs[n], Rank |-> n])
            /\ elec' = [elec EXCEPT ![n].inst[e].st = "none",
                                    ![n].inst[e].receivedOK = FALSE,
                                    ![n].inst[e].mon = FALSE,
                                    ![n].obc = @ + 1]
       ELSE /\ elec' = [elec EXCEPT ![n].inst[e].st = "none",
                                    ![n].inst[e].receivedOK = FALSE,
                                    ![n].inst[e].mon = FALSE]
            /\ UNCHANGED <<coordinator, net>>
    /\ UNCHANGED <<peers, alive, now, clock, ra, storeVars, proc, budget>>

\* A COORDINATOR call resolves: HandleCoordinator at the dialled node.
DeliverCoordinator(msg) ==
    /\ msg \in net
    /\ msg.type = "HandleCoordinator"
    /\ LET m == Resolve(msg.to)
       IN IF m # 0 /\ alive[m] /\ coordinator[m] # msg.body.NodeID
          THEN coordinator' = [coordinator EXCEPT ![m] = msg.body.NodeID]
          ELSE coordinator' = coordinator
    /\ net' = net \ {msg}
    /\ UNCHANGED <<peers, alive, now, clock, ra, elec, storeVars, proc, budget>>

\* The nodes whose heartbeat loop is sending: the loop was spawned when the
\* node declared itself and has found Coordinator = ID at each of its checks.
Heartbeating(m) == alive[m] /\ coordinator[m] = NodeIDs[m]

\* MonitorLeader of a node that is not the leader saw no heartbeat for its
\* whole timeout, nobody having sent one, and starts an election.
MonitorTimeout(n, e) ==
    /\ alive[n]
    /\ coordinator[n] # NodeIDs[n]
    /\ \A f \in ElecSlots : ~(elec[n].inst[f].st = "run" /\ elec[n].inst[f].mon)
    /\ \A m \in Nodes : ~Heartbeating(m)
    /\ FirstFreeElec(n, e)
    /\ budget.elections > 0
    /\ budget' = [budget EXCEPT !.elections = @ - 1]
    /\ elec' = [elec EXCEPT ![n].inst[e] = StartedElection(n, TRUE)]
    /\ UNCHANGED <<peers, alive, now, clock, ra, coordinator, storeVars, proc, net>>

(***************************************************************************)
(* The item queue on the coordinator.                                      *)
(***************************************************************************)
\* startNextItem with the floor of the new item one lower.
NextItemQueueBelow(q, t) ==
    IF q.Queue = <<>>
    THEN [q EXCEPT !.CurrentItem = NoItem, !.Active = FALSE, !.DeadlineUnix = 0]
    ELSE [q EXCEPT !.Queue = Tail(q.Queue),
                   !.CurrentItem = Head(q.Queue),
                   !.CurrentHighestBid = Head(q.Queue).StartingPrice - 2,
                   !.CurrentWinner = "",
                   !.DeadlineUnix = t + Head(q.Queue).DurationSec]

\* startNextItem: the queue it leaves at second t.
NextItemQueue(q, t) ==
    IF q.Queue = <<>>
    THEN [q EXCEPT !.CurrentItem = NoItem, !.Active = FALSE, !.DeadlineUnix = 0]
    ELSE [q EXCEPT !.Queue = Tail(q.Queue),
                   !.CurrentItem = Head(q.Queue),
                   !.CurrentHighestBid = Head(q.Queue).StartingPrice - 1,
                   !.CurrentWinner = "",
                   !.DeadlineUnix = t + Head(q.Queue).DurationSec]

\* OnBecomeCoordinator that gives an open item a new deadline whether or not
\* it has one.
OnBecomeCoordinatorNewDeadline(n) ==
    /\ alive[n]
    /\ elec[n].obc > 0
    /\ elec' = [elec EXCEPT ![n].obc = @ - 1]
    /\ LET q == queue[n]
           hasItem == q.CurrentItem # NoItem
           deadlineSet == q.DeadlineUnix > 0
       IN IF hasItem
          THEN LET q2 == [q EXCEPT !.DeadlineUnix = now + q.CurrentItem.DurationSec]
               IN /\ queue' = [queue EXCEPT ![n] = q2]
                  /\ net' = net \cup FanOut(n, "SyncQueueState", buildQueueSnapshot(q2))
                  /\ timers' = timers \cup {<<n, q2.CurrentItem.ID, q2.DeadlineUnix>>}
                  /\ cpg' = cpg
          ELSE LET q2 == NextItemQueue(q, now)
               IN /\ queue' = [queue EXCEPT ![n] = q2]
                  /\ net' = net \cup FanOut(n, "SyncQueueState", buildQueueSnapshot(q2))
                  /\ IF q.Queue = <<>>
                     THEN UNCHANGED <<timers, cpg>>
                     ELSE /\ timers' = timers \cup {<<n, q2.CurrentItem.ID, q2.DeadlineUnix>>}
                          /\ cpg' = [cpg EXCEPT ![n] = @ + 1]
    /\ UNCHANGED <<peers, alive, now, clock, ra, coordinator, pendingTxns, bcast, hist, ckpt, pull, proc, budget>>

\* A spawned OnBecomeCoordinator runs.
OnBecomeCoordinator(n) ==
    /\ alive[n]
    /\ elec[n].obc > 0
    /\ elec' = [elec EXCEPT ![n].obc = @ - 1]
    /\ LET q == queue[n]
           hasItem == q.CurrentItem # NoItem
           deadlineSet == q.DeadlineUnix > 0
       IN IF hasItem /\ deadlineSet
          THEN /\ timers' = timers \cup {<<n, q.CurrentItem.ID, q.DeadlineUnix>>}
               /\ UNCHANGED <<queue, net, cpg>>
          ELSE IF hasItem
          THEN LET q2 == [q EXCEPT !.DeadlineUnix = now + q.CurrentItem.DurationSec]
               IN /\ queue' = [queue EXCEPT ![n] = q2]
                  /\ net' = net \cup FanOut(n, "SyncQueueState", buildQueueSnapshot(q2))
                  /\ timers' = timers \cup {<<n, q2.CurrentItem.ID, q2.DeadlineUnix>>}
                  /\ cpg' = cpg
          ELSE LET q2 == NextItemQueue(q, now)
               IN /\ queue' = [queue EXCEPT ![n] = q2]
                  /\ net' = net \cup FanOut(n, "SyncQueueState", buildQueueSnapshot(q2))
                  /\ IF q.Queue = <<>>
                     THEN UNCHANGED <<timers, cpg>>
                     ELSE /\ timers' = timers \cup {<<n, q2.CurrentItem.ID, q2.DeadlineUnix>>}
                          /\ cpg' = [cpg EXCEPT ![n] = @ + 1]
    /\ UNCHANGED <<peers, alive, now, clock, ra, coordinator, pendingTxns, bcast, hist, ckpt, pull, proc, budget>>

(***************************************************************************)
(* Pull replication.                                                       *)
(***************************************************************************)
\* getCoordinatorAddress for a node that is not the coordinator: the peer
\* on port 8000 + rank, "" when the id gives no rank.
CoordinatorAddress(n) ==
    IF RankOfID(coordinator[n]) = 0 THEN "" ELSE PeerAddrs[RankOfID(coordinator[n])]

\* A tick of periodicStateSync on a follower: GetQueueState runs on the
\* coordinator it knows, or the call fails and the tick is skipped.
PullQueueState(n) ==
    /\ alive[n]
    /\ ~IsCoordinator(n)
    /\ CoordinatorAddress(n) # ""
    /\ pull[n].st = "none"
    /\ LET m == Resolve(CoordinatorAddress(n))
       IN IF m # 0 /\ alive[m]
          THEN pull' = [pull EXCEPT ![n] = [st |-> "reply", snap |-> buildQueueSnapshot(queue[m])]]
          ELSE pull' = pull
    /\ UNCHANGED <<peers, alive, now, clock, ra, electVars, queue, pendingTxns, bcast, hist, timers, ckpt, cpg, proc, net, budget>>

\* The reply of GetQueueState arrives and is applied.
ApplyPulledState(n) ==
    /\ alive[n]
    /\ pull[n].st = "reply"
    /\ queue' = [queue EXCEPT ![n] = applyQueueSnapshot(@, pull[n].snap)]
    /\ pull' = [pull EXCEPT ![n] = NoPull]
    /\ UNCHANGED <<peers, alive, now, clock, ra, electVars, pendingTxns, bcast, hist, timers, ckpt, cpg, proc, net, budget>>

(***************************************************************************)
(* Bids over HTTP.                                                         *)
(***************************************************************************)
\* The HTTP answer of a handler whose forward call returned an error.
LeaderUnavailable == "Leader unavailable; retry shortly"

\* The reply of SubmitBidToCoordinator on a node that is not the coordinator.
NotCoordinator == "This node is not the coordinator"

\* handleBidRequest with a valid amount and bidder: ProposeBid on this node
\* when getCoordinatorAddress says it is the coordinator or gives no
\* address, the SubmitBidToCoordinator call to that address otherwise.
HandleBidRequest(n, p, amount, bidder) ==
    IF IsCoordinator(n) \/ CoordinatorAddress(n) = ""
    THEN ProposeBidFrom(proc, n, p, amount, bidder)
    ELSE /\ alive[n]
         /\ FirstIdle(n, p)
         /\ budget.bids > 0
         /\ bidder = Bidders[budget.bids]
         /\ proc' = [proc EXCEPT ![n][p] =
                       [IdleProc EXCEPT !.pc = "fwd", !.op = "forward",
                                        !.bid = [Amount |-> amount, Bidder |-> bidder],
                                        !.fwd = [to |-> CoordinatorAddress(n), slot |-> 0]]]
         /\ UNCHANGED <<peers, alive, now, clock, ra, electVars, storeVars, net, budget>>

\* What the handler in slot p of node n answers, and the end of the handler.
BidAnswered(pr, ok, message) ==
    [pr EXCEPT !.pc = "done", !.ok = ok, !.message = message]

\* The forwarded call resolves: the dial fails, or SubmitBidToCoordinator
\* runs on the node dialled, which refuses when it is not the coordinator
\* and starts ProposeBid in its slot q otherwise.
DeliverSubmitBid(n, p, q) ==
    /\ alive[n]
    /\ proc[n][p].pc = "fwd"
    /\ LET m   == Resolve(proc[n][p].fwd.to)
           bid == proc[n][p].bid
       IN IF m = 0 \/ ~alive[m]
          THEN /\ proc' = [proc EXCEPT ![n][p] = BidAnswered(@, FALSE, LeaderUnavailable)]
               /\ budget' = [budget EXCEPT !.bids = @ - 1]
               /\ UNCHANGED <<peers, alive, now, clock, ra, electVars, storeVars, net>>
          ELSE IF ~IsCoordinator(m)
          THEN /\ proc' = [proc EXCEPT ![n][p] = BidAnswered(@, FALSE, NotCoordinator)]
               /\ budget' = [budget EXCEPT !.bids = @ - 1]
               /\ UNCHANGED <<peers, alive, now, clock, ra, electVars, storeVars, net>>
          ELSE ProposeBidFrom([proc EXCEPT ![n][p] = [@ EXCEPT !.pc = "fwdwait", !.fwd.slot = q]],
                              m, q, bid.Amount, bid.Bidder)

\* ProposeBid has returned on the coordinator: the reply reaches the handler.
ForwardReturns(n, p) ==
    /\ alive[n]
    /\ proc[n][p].pc = "fwdwait"
    /\ LET m == Resolve(proc[n][p].fwd.to)
           q == proc[n][p].fwd.slot
       IN /\ alive[m]
          /\ proc[m][q].pc = "done"
          /\ proc' = [proc EXCEPT ![n][p] = BidAnswered(@, proc[m][q].ok, proc[m][q].message)]
    /\ UNCHANGED <<peers, alive, now, clock, ra, electVars, storeVars, net, budget>>

\* The process that serves the call has died before it replied: the
\* connection is gone and client.Call returns an error (the call has no
\* timeout, so a serving process that lives is waited for).
ForwardBreaks(n, p) ==
    /\ alive[n]
    /\ proc[n][p].pc = "fwdwait"
    /\ LET m == Resolve(proc[n][p].fwd.to)
           q == proc[n][p].fwd.slot
       IN ~alive[m] \/ proc[m][q].pc = "idle"
    /\ proc' = [proc EXCEPT ![n][p] = BidAnswered(@, FALSE, LeaderUnavailable)]
    /\ UNCHANGED <<peers, alive, now, clock, ra, electVars, storeVars, net, budget>>

(***************************************************************************)
(* Checkpoints.                                                            *)
(***************************************************************************)
\* A tick of runPeriodicCheckpointing on a node that takes itself for the
\* coordinator: it spawns initiateGlobalCheckpoint.
PeriodicCheckpoint(n) ==
    /\ alive[n]
    /\ IsCoordinator(n)
    /\ budget.checkpoints > 0
    /\ budget' = [budget EXCEPT !.checkpoints = @ - 1]
    /\ cpg' = [cpg EXCEPT ![n] = @ + 1]
    /\ UNCHANGED <<peers, alive, now, clock, ra, electVars, queue, pendingTxns, bcast, hist, timers, ckpt, pull, proc, net>>

\* A spawned initiateGlobalCheckpoint runs: the coordinator test, the clock
\* tick, the local checkpoint and the TakeCheckpoint fan-out. The acks are
\* only logged.
InitiateGlobalCheckpoint(n) ==
    /\ alive[n]
    /\ cpg[n] > 0
    /\ cpg' = [cpg EXCEPT ![n] = @ - 1]
    /\ IF IsCoordinator(n)
       THEN /\ clock' = [clock EXCEPT ![n] = Tick(@)]
            /\ ckpt' = [ckpt EXCEPT ![n] = saveCheckpoint(CheckpointOf(queue[n], Tick(clock[n]), now))]
            /\ net' = net \cup FanOut(n, "TakeCheckpoint",
                                      [InitiatorID |-> NodeIDs[n], LamportTime |-> Tick(clock[n])])
       ELSE UNCHANGED <<clock, ckpt, net>>
    /\ UNCHANGED <<peers, alive, now, ra, electVars, queue, pendingTxns, bcast, hist, timers, pull, proc, budget>>

\* A TakeCheckpoint call resolves: the dialled node saves its local
\* checkpoint.
DeliverTakeCheckpoint(msg) ==
    /\ msg \in net
    /\ msg.type = "TakeCheckpoint"
    /\ LET m == Resolve(msg.to)
       IN IF m # 0 /\ alive[m]
          THEN ckpt' = [ckpt EXCEPT ![m] = saveCheckpoint(CheckpointOf(queue[m], clock[m], now))]
          ELSE ckpt' = ckpt
    /\ net' = net \ {msg}
    /\ UNCHANGED <<peers, alive, now, clock, ra, electVars, queue, pendingTxns, bcast, hist, timers, cpg, pull, proc, budget>>

(***************************************************************************)
(* The item timer and the admin operations on the coordinator.             *)
(***************************************************************************)
\* finalizeCurrentItemLocked: the queue it leaves.
Finalized(q) ==
    IF q.CurrentItem = NoItem
    THEN q
    ELSE LET noBids == q.CurrentHighestBid <= q.CurrentItem.StartingPrice - 1
             result == [ Item       |-> q.CurrentItem,
                         Winner     |-> IF noBids THEN "No bids" ELSE q.CurrentWinner,
                         WinningBid |-> IF noBids THEN 0 ELSE q.CurrentHighestBid ]
         IN [q EXCEPT !.Results = Append(@, result), !.CurrentItem = NoItem]

\* The goroutines startNextItem spawns on the queue q it leaves: the timer
\* of the new item, none when the queue was drained.
ItemTimers(n, q) ==
    IF q.CurrentItem = NoItem THEN {} ELSE {<<n, q.CurrentItem.ID, q.DeadlineUnix>>}

\* runItemTimer without its isCoordinator test: a timer whose item and
\* deadline still match finalizes on whatever node it wakes up.
TimerFiresOnAnyNode(t) ==
    /\ t \in timers
    /\ alive[t[1]]
    /\ now >= t[3]
    /\ LET n == t[1]
           q == queue[n]
           q2 == NextItemQueue(Finalized(q), now)
       IN IF q.CurrentItem # NoItem /\ q.CurrentItem.ID = t[2] /\ q.DeadlineUnix = t[3]
          THEN /\ queue' = [queue EXCEPT ![n] = q2]
               /\ net' = net \cup FanOut(n, "SyncQueueState", buildQueueSnapshot(q2))
               /\ cpg' = [cpg EXCEPT ![n] = @ + (IF q2.CurrentItem = NoItem THEN 1 ELSE 2)]
               /\ timers' = (timers \ {t}) \cup ItemTimers(n, q2)
          ELSE /\ timers' = timers \ {t}
               /\ UNCHANGED <<queue, net, cpg>>
    /\ UNCHANGED <<peers, alive, now, clock, ra, electVars, pendingTxns, bcast, hist, ckpt, pull, proc, budget>>

\* A runItemTimer goroutine wakes up at its deadline: it returns when the
\* node is not the coordinator or the item or deadline have changed,
\* otherwise it finalizes the item and starts the next one.
TimerFires(t) ==
    /\ t \in timers
    /\ alive[t[1]]
    /\ now >= t[3]
    /\ LET n == t[1]
           q == queue[n]
           q2 == NextItemQueue(Finalized(q), now)
       IN IF IsCoordinator(n) /\ q.CurrentItem # NoItem /\ q.CurrentItem.ID = t[2]
                /\ q.DeadlineUnix = t[3]
          THEN /\ queue' = [queue EXCEPT ![n] = q2]
               /\ net' = net \cup FanOut(n, "SyncQueueState", buildQueueSnapshot(q2))
               /\ cpg' = [cpg EXCEPT ![n] = @ + (IF q2.CurrentItem = NoItem THEN 1 ELSE 2)]
               /\ timers' = (timers \ {t}) \cup ItemTimers(n, q2)
          ELSE /\ timers' = timers \ {t}
               /\ UNCHANGED <<queue, net, cpg>>
    /\ UNCHANGED <<peers, alive, now, clock, ra, electVars, pendingTxns, bcast, hist, ckpt, pull, proc, budget>>

\* fmt.Sprintf("item-%d", k).
ItemID(k) == "item-" \o ToString(k)

\* addItemAndBroadcast inside the critical section: the queue it leaves.
ItemAdded(q, price, dur) ==
    LET newID == IF q.CurrentItem = NoItem THEN "item-1"
                 ELSE ItemID(Len(q.Queue) + Len(q.Results) + 2)
    IN [q EXCEPT !.Queue = Append(@, [ID |-> newID, StartingPrice |-> price, DurationSec |-> dur])]

\* startAuctionAndBroadcast inside the critical section: whether it returns
\* early, and the queue it leaves at second t.
AuctionRunning(q, t) == q.Active /\ q.CurrentItem # NoItem /\ q.DeadlineUnix > t

NothingToStart(q) == q.CurrentItem = NoItem /\ q.Queue = <<>>

AuctionStarted(q, t) ==
    IF AuctionRunning(q, t) THEN q
    ELSE IF NothingToStart(q) THEN [q EXCEPT !.Active = FALSE]
    ELSE LET q1 == IF q.CurrentItem # NoItem THEN q
                   ELSE [q EXCEPT !.Queue = Tail(q.Queue),
                                  !.CurrentItem = Head(q.Queue),
                                  !.CurrentHighestBid = Head(q.Queue).StartingPrice - 1,
                                  !.CurrentWinner = ""]
         IN [q1 EXCEPT !.Active = TRUE, !.DeadlineUnix = t + q1.CurrentItem.DurationSec]

\* restartAuctionAndBroadcast inside the critical section: the queue it
\* leaves at second t.
AuctionRestarted(t) ==
    [ Queue             |-> Tail(defaultItems),
      CurrentItem       |-> Head(defaultItems),
      CurrentHighestBid |-> Head(defaultItems).StartingPrice - 1,
      CurrentWinner     |-> "",
      DeadlineUnix      |-> t + Head(defaultItems).DurationSec,
      Active            |-> TRUE,
      Results           |-> <<>> ]

\* An admin request reaches the coordinator (from its own HTTP handler):
\* addItemAndBroadcast validates its arguments; then RequestCS up to the
\* start of the wait.
AdminRequest(n, p, op, price, dur) ==
    /\ alive[n]
    /\ IsCoordinator(n)
    /\ FirstIdle(n, p)
    /\ budget.admin > 0
    /\ budget' = [budget EXCEPT !.admin = @ - 1]
    /\ op \in {"add", "start", "restart"}
    /\ IF op = "add" /\ (price <= 0 \/ dur <= 0)
       THEN /\ proc' = [proc EXCEPT ![n][p] =
                          [IdleProc EXCEPT !.pc = "done", !.op = op, !.ok = FALSE,
                             !.message = "name, description, starting price, and duration are required"]]
            /\ UNCHANGED <<clock, ra>>
       ELSE /\ clock' = [clock EXCEPT ![n] = Tick(@)]
            /\ ra' = [ra EXCEPT ![n] = RequestingRA(@, Tick(clock[n]), Len(peers[n]))]
            /\ proc' = [proc EXCEPT ![n][p] =
                          WaitingProc([IdleProc EXCEPT !.op = op,
                                          !.item = IF op = "add"
                                                   THEN [ID |-> "", StartingPrice |-> price, DurationSec |-> dur]
                                                   ELSE NoItem],
                                      Len(peers[n]))]
    /\ UNCHANGED <<peers, alive, now, electVars, storeVars, net>>

\* The admin operation in the critical section, up to its return and the
\* deferred ReleaseCS: the queue update, the snapshot push, and the spawn of
\* the checkpoint and of the item timer.
AdminApply(n, p) ==
    /\ alive[n]
    /\ proc[n][p].pc = "cs"
    /\ proc[n][p].op # ""
    /\ LET pr == proc[n][p]
           q  == queue[n]
           early == pr.op = "start" /\ (AuctionRunning(q, now) \/ NothingToStart(q))
           q2 == IF pr.op = "add" THEN ItemAdded(q, pr.item.StartingPrice, pr.item.DurationSec)
                 ELSE IF pr.op = "start" THEN AuctionStarted(q, now)
                 ELSE AuctionRestarted(now)
       IN /\ queue' = [queue EXCEPT ![n] = q2]
          /\ net' = net \cup DeferredCalls(n) \cup
                       (IF early THEN {} ELSE FanOut(n, "SyncQueueState", buildQueueSnapshot(q2)))
          /\ cpg' = [cpg EXCEPT ![n] = IF early THEN @ ELSE @ + 1]
          /\ timers' = IF early \/ pr.op = "add" THEN timers ELSE timers \cup ItemTimers(n, q2)
          /\ proc' = [proc EXCEPT ![n][p] =
                        [@ EXCEPT !.pc = "done",
                                  !.ok = ~(pr.op = "start" /\ ~AuctionRunning(q, now) /\ NothingToStart(q)),
                                  !.message =
                                      IF pr.op = "add" THEN "Item added to queue"
                                      ELSE IF pr.op = "restart" THEN "Auction restarted"
                                      ELSE IF AuctionRunning(q, now) THEN "Auction already running"
                                      ELSE IF NothingToStart(q) THEN "No items available to start"
                                      ELSE "Auction started"]]
    /\ ra' = [ra EXCEPT ![n] = ReleasedRA(@)]
    /\ UNCHANGED <<peers, alive, now, clock, electVars, pendingTxns, bcast, hist, ckpt, pull, budget>>

(***************************************************************************)
(* The mutual-exclusion specification: a cluster whose nodes all run, each *)
(* started with the same --peers list (its own address included, as the    *)
(* launch script passes it), and callers that take and release the CS.     *)
(***************************************************************************)
RACluster == 1..RAClusterSize

ClusterPeers(c) == [i \in 1..Cardinality(c) |-> PeerAddrs[i]]

InitRA ==
    /\ peers = [n \in Nodes |-> IF n \in RACluster THEN ClusterPeers(RACluster) ELSE <<>>]
    /\ alive = [n \in Nodes |-> n \in RACluster]
    /\ now = 0
    /\ clock = [n \in Nodes |-> 0]
    /\ ra = [n \in Nodes |-> NewRAManager]
    /\ queue = [n \in Nodes |-> freshQueue]
    /\ coordinator = [n \in Nodes |-> ""]
    /\ pendingTxns = [n \in Nodes |-> {}]
    /\ proc = [n \in Nodes |-> [p \in Procs |-> IdleProc]]
    /\ net = {}
    /\ bcast = [n \in Nodes |-> 0]
    /\ elec = [n \in Nodes |-> NoElection]
    /\ timers = {}
    /\ ckpt = [n \in Nodes |-> NoCheckpoint]
    /\ cpg = [n \in Nodes |-> 0]
    /\ pull = [n \in Nodes |-> NoPull]
    /\ hist = NoHistory
    /\ budget = [NoBudget EXCEPT !.requests = MaxRequests, !.slots = MaxProcs]

NextRA ==
    \/ \E n \in Nodes, p \in Procs : RequestCS(n, p)
    \/ \E n \in Nodes, p \in Procs, k \in 1..Len(PeerAddrs) : RASend(n, p, k)
    \/ \E n \in Nodes, p \in Procs, k \in 1..Len(PeerAddrs) : RAReceive(n, p, k)
    \/ \E n \in Nodes, p \in Procs, k \in 1..Len(PeerAddrs) : RAReplyDone(n, p, k)
    \/ \E n \in Nodes, p \in Procs : TakeToken(n, p)
    \/ \E n \in Nodes, p \in Procs : ReleaseCS(n, p)
    \/ \E msg \in net : DeliverDeferredReply(msg)

SpecRA == InitRA /\ [][NextRA]_vars

(***************************************************************************)
(* The same cluster with one caller per node, under the scheduling the     *)
(* runtime and a network that delivers every RPC give: every runnable      *)
(* goroutine runs, every call in flight completes, every CS is released.   *)
(* Whether a node asks for the CS at all is up to its clients.             *)
(***************************************************************************)
InitRAFair ==
    /\ InitRA!1 /\ InitRA!2 /\ InitRA!3 /\ InitRA!4 /\ InitRA!5
    /\ InitRA!6 /\ InitRA!7 /\ InitRA!8 /\ InitRA!9 /\ InitRA!10
    /\ InitRA!11 /\ InitRA!12 /\ InitRA!13 /\ InitRA!14 /\ InitRA!15
    /\ InitRA!16 /\ InitRA!17
    /\ budget = [NoBudget EXCEPT !.requests = MaxFairRequests, !.slots = 1]

FairnessRA ==
    /\ \A n \in Nodes, p \in Procs, k \in 1..Len(PeerAddrs) :
          /\ WF_vars(RASend(n, p, k))
          /\ WF_vars(RAReceive(n, p, k))
          /\ WF_vars(RAReplyDone(n, p, k))
    /\ \A n \in Nodes, p \in Procs : WF_vars(TakeToken(n, p)) /\ WF_vars(ReleaseCS(n, p))
    /\ WF_vars(\E msg \in net : DeliverDeferredReply(msg))

SpecRAFair == InitRAFair /\ [][NextRA]_vars /\ FairnessRA

(***************************************************************************)
(* Wall-clock time. It passes in jumps to the next instant at which a      *)
(* deadline test of a running node changes its answer.                     *)
(***************************************************************************)
TimePoints == {queue[n].DeadlineUnix : n \in {m \in Nodes : alive[m]}}

AdvanceTime(t) ==
    /\ t \in TimePoints
    /\ t > now
    /\ now' = t
    /\ UNCHANGED <<peers, alive, clock, ra, electVars, storeVars, proc, net, budget>>

(***************************************************************************)
(* The bid specification: a cluster of BidClusterSize nodes, each started   *)
(* with the addresses of all of them as --peers, after the highest rank    *)
(* has won the first election at second 1, has set the deadline of the     *)
(* first item and has pushed it to every running node. The nodes of rank   *)
(* 1..d are down (crashed or partitioned away), for every d up to MaxDown. *)
(* Clients send bids to the coordinator.                                   *)
(***************************************************************************)
BidClusterSize == 3
MaxDown == 2
MaxBids == 1
MaxBidProcs == 1

ElectedQueue(t) ==
    [freshQueue EXCEPT !.DeadlineUnix = t + freshQueue.CurrentItem.DurationSec]

\* The state after the first election in the cluster c whose nodes in down
\* do not run.
ElectedInit(c, down) ==
    LET top == CHOOSE n \in c \ down : \A m \in c \ down : m <= n
        up(n) == n \in c \ down
    IN /\ peers = [n \in Nodes |-> IF n \in c THEN ClusterPeers(c) ELSE <<>>]
       /\ alive = [n \in Nodes |-> up(n)]
       /\ now = 1
       /\ clock = [n \in Nodes |-> 0]
       /\ ra = [n \in Nodes |-> NewRAManager]
       /\ queue = [n \in Nodes |-> IF up(n) THEN ElectedQueue(1) ELSE freshQueue]
       /\ coordinator = [n \in Nodes |-> IF up(n) THEN NodeIDs[top] ELSE ""]
       /\ pendingTxns = [n \in Nodes |-> {}]
       /\ proc = [n \in Nodes |-> [p \in Procs |-> IdleProc]]
       /\ net = {}
       /\ bcast = [n \in Nodes |-> 0]
       /\ elec = [n \in Nodes |-> NoElection]
       /\ timers = {<<top, freshQueue.CurrentItem.ID, ElectedQueue(1).DeadlineUnix>>}
       /\ ckpt = [n \in Nodes |-> NoCheckpoint]
       /\ cpg = [n \in Nodes |-> 0]
       /\ pull = [n \in Nodes |-> NoPull]
       /\ hist = NoHistory

Init2PC ==
    /\ \E d \in 0..MaxDown : ElectedInit(1..BidClusterSize, 1..d)
    /\ budget = [NoBudget EXCEPT !.slots = MaxBidProcs, !.bids = MaxBids]

Next2PC ==
    \/ \E n \in Nodes, p \in Procs, amount \in BidAmounts, bidder \in Range(Bidders) :
          ProposeBid(n, p, amount, bidder)
    \/ \E n \in Nodes, p \in Procs, k \in 1..Len(PeerAddrs) : RASend(n, p, k)
    \/ \E n \in Nodes, p \in Procs, k \in 1..Len(PeerAddrs) : RAReceive(n, p, k)
    \/ \E n \in Nodes, p \in Procs, k \in 1..Len(PeerAddrs) : RAReplyDone(n, p, k)
    \/ \E n \in Nodes, p \in Procs : TakeToken(n, p)
    \/ \E n \in Nodes, p \in Procs : PB_Prepare(n, p)
    \/ \E n \in Nodes, p \in Procs, k \in 1..Len(PeerAddrs) : PB_PrepSend(n, p, k)
    \/ \E n \in Nodes, p \in Procs, k \in 1..Len(PeerAddrs) : PB_PrepReceive(n, p, k)
    \/ \E n \in Nodes, p \in Procs, k \in 1..Len(PeerAddrs) : PB_PrepReply(n, p, k)
    \/ \E n \in Nodes, p \in Procs : PB_CollectVote(n, p)
    \/ \E n \in Nodes, p \in Procs : PB_VoteTimeout(n, p)
    \/ \E n \in Nodes, p \in Procs : PB_Decide(n, p)
    \/ \E msg \in net : DeliverDecide(msg)
    \/ \E n \in Nodes : BroadcastQueueState(n)
    \/ \E msg \in net : DeliverSync(msg)
    \/ \E t \in TimePoints : AdvanceTime(t)

Spec2PC == Init2PC /\ [][Next2PC]_vars

(***************************************************************************)
(* The vote phase in the four-node deployment of the launch script, all    *)
(* nodes running: one bid, up to the return of ProposeBid. The calls it    *)
(* has dispatched by then are still in flight.                             *)
(***************************************************************************)
InitVote4 ==
    /\ ElectedInit(Nodes, {})
    /\ budget = [NoBudget EXCEPT !.slots = MaxBidProcs, !.bids = MaxBids]

NextVote4 ==
    \/ \E n \in Nodes, p \in Procs, amount \in BidAmounts, bidder \in Range(Bidders) :
          ProposeBid(n, p, amount, bidder)
    \/ \E n \in Nodes, p \in Procs, k \in 1..Len(PeerAddrs) : RASend(n, p, k)
    \/ \E n \in Nodes, p \in Procs, k \in 1..Len(PeerAddrs) : RAReceive(n, p, k)
    \/ \E n \in Nodes, p \in Procs, k \in 1..Len(PeerAddrs) : RAReplyDone(n, p, k)
    \/ \E n \in Nodes, p \in Procs : TakeToken(n, p)
    \/ \E n \in Nodes, p \in Procs : PB_Prepare(n, p)
    \/ \E n \in Nodes, p \in Procs, k \in 1..Len(PeerAddrs) : PB_PrepSend(n, p, k)
    \/ \E n \in Nodes, p \in Procs, k \in 1..Len(PeerAddrs) : PB_PrepReceive(n, p, k)
    \/ \E n \in Nodes, p \in Procs, k \in 1..Len(PeerAddrs) : PB_PrepReply(n, p, k)
    \/ \E n \in Nodes, p \in Procs : PB_CollectVote(n, p)
    \/ \E n \in Nodes, p \in Procs : PB_VoteTimeout(n, p)
    \/ \E n \in Nodes, p \in Procs : PB_Decide(n, p)

SpecVote4 == InitVote4 /\ [][NextVote4]_vars

(***************************************************************************)
(* Specifications of the cluster life cycle. Operators start and kill the  *)
(* processes; they do so while the cluster is quiet where a specification  *)
(* says so.                                                                *)
(***************************************************************************)
\* No call is in flight and no spawned goroutine other than a checkpoint
\* is waiting to run.
QuietCalls ==
    /\ net = {}
    /\ \A n \in Nodes :
          /\ bcast[n] = 0 /\ elec[n].obc = 0
          /\ pull[n].st = "none"
          /\ \A e \in ElecSlots : ElecFree(n, e)
          /\ \A p \in Procs : SlotFree(n, p)

\* No call is in flight and no spawned goroutine is waiting to run.
Quiet == QuietCalls /\ \A n \in Nodes : cpg[n] = 0

\* The amount of a bid that is valid on the first item.
ValidAmounts == {Head(defaultItems).StartingPrice}

\* No node of the cluster c has been started yet; no checkpoint is on disk.
BootInit(c) ==
    /\ peers = [n \in Nodes |-> IF n \in c THEN ClusterPeers(c) ELSE <<>>]
    /\ alive = [n \in Nodes |-> FALSE]
    /\ now = 1
    /\ clock = [n \in Nodes |-> 0]
    /\ ra = [n \in Nodes |-> NewRAManager]
    /\ queue = [n \in Nodes |-> freshQueue]
    /\ coordinator = [n \in Nodes |-> ""]
    /\ pendingTxns = [n \in Nodes |-> {}]
    /\ proc = [n \in Nodes |-> [p \in Procs |-> IdleProc]]
    /\ net = {}
    /\ bcast = [n \in Nodes |-> 0]
    /\ elec = [n \in Nodes |-> NoElection]
    /\ timers = {}
    /\ ckpt = [n \in Nodes |-> NoCheckpoint]
    /\ cpg = [n \in Nodes |-> 0]
    /\ pull = [n \in Nodes |-> NoPull]
    /\ hist = NoHistory

\* The launch: every node of the cluster is started once, in any order and
\* at any pace, and the elections run.
ElectClusterSize == 2
MaxElections == 4

InitElect ==
    /\ BootInit(1..ElectClusterSize)
    /\ budget = [NoBudget EXCEPT !.starts = ElectClusterSize, !.elections = MaxElections]

NextElect ==
    \/ \E n \in Nodes : StartNode(n)
    \/ \E n \in Nodes, e \in ElecSlots, k \in 1..Len(PeerAddrs) : DeliverElection(n, e, k)
    \/ \E n \in Nodes, e \in ElecSlots : DecideElection(n, e)
    \/ \E msg \in net : DeliverCoordinator(msg)
    \/ \E n \in Nodes, e \in ElecSlots : MonitorTimeout(n, e)
    \/ \E n \in Nodes : OnBecomeCoordinator(n)
    \/ \E msg \in net : DeliverSync(msg)

SpecElect == InitElect /\ [][NextElect]_vars

\* The launch with every step of the election taken if it stays possible:
\* calls are delivered, waits end, spawned goroutines run, and MonitorLeader
\* times out when no heartbeat comes. The operator is free.
FairnessElect ==
    /\ WF_vars(\E n \in Nodes, e \in ElecSlots, k \in 1..Len(PeerAddrs) : DeliverElection(n, e, k))
    /\ WF_vars(\E n \in Nodes, e \in ElecSlots : DecideElection(n, e))
    /\ WF_vars(\E msg \in net : DeliverCoordinator(msg))
    /\ WF_vars(\E n \in Nodes, e \in ElecSlots : MonitorTimeout(n, e))
    /\ WF_vars(\E n \in Nodes : OnBecomeCoordinator(n))
    /\ WF_vars(\E msg \in net : DeliverSync(msg))

SpecElectFair == InitElect /\ [][NextElect]_vars /\ FairnessElect

\* The steps of one bid from its submission on the coordinator to the
\* delivery of its decision and snapshots, every PREPARE call being answered
\* within the vote timeout; the client submits the bid while the cluster is
\* quiet.
BidSteps ==
    \/ \E n \in Nodes, p \in Procs, amount \in ValidAmounts, bidder \in Range(Bidders) :
          Quiet /\ ProposeBid(n, p, amount, bidder)
    \/ \E n \in Nodes, p \in Procs, k \in 1..Len(PeerAddrs) : RASend(n, p, k)
    \/ \E n \in Nodes, p \in Procs, k \in 1..Len(PeerAddrs) : RAReceive(n, p, k)
    \/ \E n \in Nodes, p \in Procs, k \in 1..Len(PeerAddrs) : RAReplyDone(n, p, k)
    \/ \E n \in Nodes, p \in Procs : TakeToken(n, p)
    \/ \E n \in Nodes, p \in Procs : PB_Prepare(n, p)
    \/ \E n \in Nodes, p \in Procs, k \in 1..Len(PeerAddrs) : PB_PrepSend(n, p, k)
    \/ \E n \in Nodes, p \in Procs, k \in 1..Len(PeerAddrs) : PB_PrepReceive(n, p, k)
    \/ \E n \in Nodes, p \in Procs, k \in 1..Len(PeerAddrs) : PB_PrepReply(n, p, k)
    \/ \E n \in Nodes, p \in Procs : PB_CollectVote(n, p)
    \/ \E n \in Nodes, p \in Procs : PB_Decide(n, p)
    \/ \E msg \in net : DeliverDecide(msg)
    \/ \E n \in Nodes : BroadcastQueueState(n)

\* The steps of the elections and of the replication that follows them; the
\* sync tick of a follower is followed when the cluster is quiet.
ElectionSteps ==
    \/ \E n \in Nodes, e \in ElecSlots, k \in 1..Len(PeerAddrs) : DeliverElection(n, e, k)
    \/ \E n \in Nodes, e \in ElecSlots : DecideElection(n, e)
    \/ \E msg \in net : DeliverCoordinator(msg)
    \/ \E n \in Nodes : OnBecomeCoordinator(n)
    \/ \E msg \in net : DeliverSync(msg)
    \/ \E n \in Nodes : Quiet /\ PullQueueState(n)
    \/ \E n \in Nodes : ApplyPulledState(n)

\* Crash and restart: a two-node cluster after its first election takes a
\* bid; the operator kills any of the nodes and starts them again, one at a
\* time while the cluster is quiet; the periodic checkpoint may tick once.
CrashClusterSize == 2
MaxCrashes == 2
MaxRestartElections == 3
MaxCheckpoints == 1

InitCrash ==
    /\ ElectedInit(1..CrashClusterSize, {})
    /\ budget = [NoBudget EXCEPT !.slots = MaxBidProcs, !.bids = MaxBids,
                                 !.crashes = MaxCrashes, !.starts = MaxCrashes,
                                 !.elections = MaxRestartElections,
                                 !.checkpoints = MaxCheckpoints]

NextCrash ==
    \/ BidSteps
    \/ \E n \in Nodes, p \in Procs : PB_VoteTimeout(n, p)
    \/ ElectionSteps
    \/ \E n \in Nodes : Quiet /\ Crash(n)
    \/ \E n \in Nodes : Quiet /\ StartNode(n)
    \/ \E n \in Nodes, e \in ElecSlots : MonitorTimeout(n, e)
    \/ \E n \in Nodes : Quiet /\ PeriodicCheckpoint(n)
    \/ \E n \in Nodes : InitiateGlobalCheckpoint(n)
    \/ \E msg \in net : DeliverTakeCheckpoint(msg)

SpecCrash == InitCrash /\ [][NextCrash]_vars

\* A late joiner: two nodes of a three-node cluster have elected the higher
\* of them and take a bid; the third, highest-ranked node is started
\* afterwards. Every step of the program is taken if it stays possible;
\* the client and the operator are free.
JoinClusterSize == 3

InitJoin ==
    /\ ElectedInit(1..JoinClusterSize, {JoinClusterSize})
    /\ budget = [NoBudget EXCEPT !.slots = MaxBidProcs, !.bids = MaxBids,
                                 !.starts = 1, !.elections = 1]

NextJoin ==
    \/ BidSteps
    \/ \E n \in Nodes : Quiet /\ StartNode(n)
    \/ \E n \in Nodes, e \in ElecSlots : DecideElection(n, e)
    \/ \E msg \in net : DeliverCoordinator(msg)
    \/ \E n \in Nodes : OnBecomeCoordinator(n)
    \/ \E msg \in net : DeliverSync(msg)
    \/ \E n \in Nodes : Quiet /\ PullQueueState(n)
    \/ \E n \in Nodes : ApplyPulledState(n)

FairnessJoin ==
    /\ WF_vars(\E n \in Nodes, p \in Procs, k \in 1..Len(PeerAddrs) : RASend(n, p, k))
    /\ WF_vars(\E n \in Nodes, p \in Procs, k \in 1..Len(PeerAddrs) : RAReceive(n, p, k))
    /\ WF_vars(\E n \in Nodes, p \in Procs, k \in 1..Len(PeerAddrs) : RAReplyDone(n, p, k))
    /\ WF_vars(\E n \in Nodes, p \in Procs : TakeToken(n, p))
    /\ WF_vars(\E n \in Nodes, p \in Procs : PB_Prepare(n, p))
    /\ WF_vars(\E n \in Nodes, p \in Procs, k \in 1..Len(PeerAddrs) : PB_PrepSend(n, p, k))
    /\ WF_vars(\E n \in Nodes, p \in Procs, k \in 1..Len(PeerAddrs) : PB_PrepReceive(n, p, k))
    /\ WF_vars(\E n \in Nodes, p \in Procs, k \in 1..Len(PeerAddrs) : PB_PrepReply(n, p, k))
    /\ WF_vars(\E n \in Nodes, p \in Procs : PB_CollectVote(n, p))
    /\ WF_vars(\E n \in Nodes, p \in Procs : PB_Decide(n, p))
    /\ WF_vars(\E msg \in net : DeliverDecide(msg))
    /\ WF_vars(\E n \in Nodes : BroadcastQueueState(n))
    /\ WF_vars(\E n \in Nodes, e \in ElecSlots : DecideElection(n, e))
    /\ WF_vars(\E msg \in net : DeliverCoordinator(msg))
    /\ WF_vars(\E n \in Nodes : OnBecomeCoordinator(n))
    /\ WF_vars(\E msg \in net : DeliverSync(msg))
    /\ WF_vars(\E n \in Nodes : Quiet /\ PullQueueState(n))
    /\ WF_vars(\E n \in Nodes : ApplyPulledState(n))

SpecJoin == InitJoin /\ [][NextJoin]_vars /\ FairnessJoin

\* The life of the item queue: a two-node cluster after its first election
\* runs its items to their deadlines; a client bids and the admin adds an
\* item, starts or restarts the auction, each while the cluster is quiet.
\* The checkpoint goroutines the operations spawn are not followed.
QueueClusterSize == 2
MaxAdmin == 1
AdminPrices == {0, 100}
AdminDurations == {60}

InitQueue ==
    /\ ElectedInit(1..QueueClusterSize, {})
    /\ budget = [NoBudget EXCEPT !.slots = MaxBidProcs, !.bids = MaxBids, !.admin = MaxAdmin]

NextQueue ==
    \/ \E n \in Nodes, p \in Procs, op \in {"add", "start", "restart"},
          price \in AdminPrices, dur \in AdminDurations :
          QuietCalls /\ AdminRequest(n, p, op, price, dur)
    \/ BidSteps
    \/ \E n \in Nodes, p \in Procs : AdminApply(n, p)
    \/ \E t \in timers : TimerFires(t)
    \/ \E msg \in net : DeliverSync(msg)
    \/ \E t \in TimePoints : QuietCalls /\ AdvanceTime(t)

SpecQueue == InitQueue /\ [][NextQueue]_vars

(***************************************************************************)
(* Bids close to the deadline: a two-node cluster after its first election *)
(* runs its items to their deadlines while a client bids; time passes      *)
(* between client calls, also while the calls a bid has left behind are in *)
(* flight, and stops one second outside, one second inside the anti-snipe  *)
(* window and at the deadline itself.                                      *)
(***************************************************************************)
antiSnipeWindow == 15

DeadlineClusterSize == 2
MaxDeadlineRounds == 1

\* The instants around the deadlines of the running nodes.
DeadlineTimePoints ==
    { queue[n].DeadlineUnix - k :
        n \in {m \in Nodes : alive[m] /\ queue[m].DeadlineUnix > 0},
        k \in {antiSnipeWindow + 1, antiSnipeWindow - 1, 0} }

TimePasses(t) ==
    /\ t \in DeadlineTimePoints
    /\ t > now
    /\ now' = t
    /\ UNCHANGED <<peers, alive, clock, ra, electVars, storeVars, proc, net, budget>>

\* No client call runs: the calls a returned ProposeBid has left behind (its
\* DECIDE and snapshot fan-out) may still be in flight.
NoCallRuns == \A n \in Nodes, p \in Procs : SlotFree(n, p)

InitDeadline ==
    /\ ElectedInit(1..DeadlineClusterSize, {})
    /\ budget = [NoBudget EXCEPT !.slots = MaxBidProcs, !.bids = MaxBids]

NextDeadline ==
    \/ BidSteps
    \/ \E t \in timers : Len(queue[t[1]].Results) < MaxDeadlineRounds /\ TimerFires(t)
    \/ \E msg \in net : DeliverSync(msg)
    \/ \E t \in DeadlineTimePoints : NoCallRuns /\ TimePasses(t)

SpecDeadline == InitDeadline /\ [][NextDeadline]_vars

(***************************************************************************)
(* maybeExtendDeadline. Nothing in the repository calls it; its comment    *)
(* says "Called by coordinator only". Here a coordinator calls it at any   *)
(* moment of the life of an item, up to MaxExtends times, in a two-node    *)
(* cluster after its first election that runs its items to their          *)
(* deadlines.                                                              *)
(***************************************************************************)
MaxExtends == 2
MaxExtendRounds == 1

\* maybeExtendDeadline: the queue it leaves at second t.
ExtendedQueue(q, t) ==
    IF q.CurrentItem = NoItem \/ ~q.Active THEN q
    ELSE IF q.DeadlineUnix - t >= antiSnipeWindow THEN q
    ELSE [q EXCEPT !.DeadlineUnix = t + antiSnipeWindow]

\* The call: when it moves the deadline it pushes a snapshot to every peer.
MaybeExtendDeadline(n) ==
    /\ alive[n]
    /\ IsCoordinator(n)
    /\ budget.extends > 0
    /\ budget' = [budget EXCEPT !.extends = @ - 1]
    /\ LET q2 == ExtendedQueue(queue[n], now)
       IN /\ queue' = [queue EXCEPT ![n] = q2]
          /\ net' = IF q2 = queue[n] THEN net
                    ELSE net \cup FanOut(n, "SyncQueueState", buildQueueSnapshot(q2))
    /\ UNCHANGED <<peers, alive, now, clock, ra, electVars, pendingTxns, bcast, hist, auxVars, proc>>

InitExtend ==
    /\ ElectedInit(1..DeadlineClusterSize, {})
    /\ budget = [NoBudget EXCEPT !.extends = MaxExtends]

NextExtend ==
    \/ \E n \in Nodes : MaybeExtendDeadline(n)
    \/ \E t \in timers : Len(queue[t[1]].Results) < MaxExtendRounds /\ TimerFires(t)
    \/ \E msg \in net : DeliverSync(msg)
    \/ \E t \in DeadlineTimePoints : TimePasses(t)

SpecExtend == InitExtend /\ [][NextExtend]_vars

(***************************************************************************)
(* Leader failover: a cluster after its first election, the first item     *)
(* open and its timer running on the coordinator. The process of the       *)
(* coordinator is killed and stays down; the survivors time out, elect,    *)
(* and the item runs to its deadline. Time passes while no call is in      *)
(* flight and no election runs (an election and its calls take less than   *)
(* the second between two checks of a heartbeat loop). Every step that     *)
(* stays possible is taken: calls are delivered, waits end, spawned        *)
(* goroutines run, time passes and timers fire. The operator is free.      *)
(***************************************************************************)
FailoverClusterSize == 3
MaxFailoverElections == 2
MaxFailoverRounds == 1

\* The operator kills the node every running node takes for the coordinator.
CrashCoordinator(n) ==
    /\ \A m \in Nodes : alive[m] => coordinator[m] = NodeIDs[n]
    /\ Crash(n)

InitFailover ==
    /\ ElectedInit(1..FailoverClusterSize, {})
    /\ budget = [NoBudget EXCEPT !.crashes = 1, !.elections = MaxFailoverElections]

NextFailover ==
    \/ \E n \in Nodes : Quiet /\ CrashCoordinator(n)
    \/ \E n \in Nodes, e \in ElecSlots : MonitorTimeout(n, e)
    \/ \E n \in Nodes, e \in ElecSlots, k \in 1..Len(PeerAddrs) : DeliverElection(n, e, k)
    \/ \E n \in Nodes, e \in ElecSlots : DecideElection(n, e)
    \/ \E msg \in net : DeliverCoordinator(msg)
    \/ \E n \in Nodes : OnBecomeCoordinator(n)
    \/ \E msg \in net : DeliverSync(msg)
    \/ \E t \in timers : Len(queue[t[1]].Results) < MaxFailoverRounds /\ TimerFires(t)
    \/ \E t \in TimePoints : QuietCalls /\ AdvanceTime(t)

FairnessFailover ==
    /\ WF_vars(\E n \in Nodes, e \in ElecSlots : MonitorTimeout(n, e))
    /\ WF_vars(\E n \in Nodes, e \in ElecSlots, k \in 1..Len(PeerAddrs) : DeliverElection(n, e, k))
    /\ WF_vars(\E n \in Nodes, e \in ElecSlots : DecideElection(n, e))
    /\ WF_vars(\E msg \in net : DeliverCoordinator(msg))
    /\ WF_vars(\E n \in Nodes : OnBecomeCoordinator(n))
    /\ WF_vars(\E msg \in net : DeliverSync(msg))
    /\ WF_vars(\E t \in timers : Len(queue[t[1]].Results) < MaxFailoverRounds /\ TimerFires(t))
    /\ WF_vars(\E t \in TimePoints : QuietCalls /\ AdvanceTime(t))

SpecFailover == InitFailover /\ [][NextFailover]_vars /\ FairnessFailover

(***************************************************************************)
(* Pull replication: the life of the item queue of SpecQueue with the      *)
(* follower's periodicStateSync. Every step that stays possible is taken:  *)
(* calls are delivered, goroutines run, time passes, timers fire and the   *)
(* sync ticker ticks. The client and the admin are free.                   *)
(***************************************************************************)
MaxPullRounds == 1

InitPull ==
    /\ ElectedInit(1..QueueClusterSize, {})
    /\ budget = [NoBudget EXCEPT !.slots = MaxBidProcs, !.bids = MaxBids, !.admin = MaxAdmin]

NextPull ==
    \/ \E n \in Nodes, p \in Procs, op \in {"add", "start", "restart"},
          price \in AdminPrices, dur \in AdminDurations :
          QuietCalls /\ AdminRequest(n, p, op, price, dur)
    \/ BidSteps
    \/ \E n \in Nodes, p \in Procs : AdminApply(n, p)
    \/ \E t \in timers : Len(queue[t[1]].Results) < MaxPullRounds /\ TimerFires(t)
    \/ \E msg \in net : DeliverSync(msg)
    \/ \E t \in TimePoints : QuietCalls /\ AdvanceTime(t)
    \/ \E n \in Nodes : QuietCalls /\ PullQueueState(n)
    \/ \E n \in Nodes : ApplyPulledState(n)

FairnessPull ==
    /\ WF_vars(\E n \in Nodes, p \in Procs, k \in 1..Len(PeerAddrs) : RASend(n, p, k))
    /\ WF_vars(\E n \in Nodes, p \in Procs, k \in 1..Len(PeerAddrs) : RAReceive(n, p, k))
    /\ WF_vars(\E n \in Nodes, p \in Procs, k \in 1..Len(PeerAddrs) : RAReplyDone(n, p, k))
    /\ WF_vars(\E n \in Nodes, p \in Procs : TakeToken(n, p))
    /\ WF_vars(\E n \in Nodes, p \in Procs : PB_Prepare(n, p))
    /\ WF_vars(\E n \in Nodes, p \in Procs, k \in 1..Len(PeerAddrs) : PB_PrepSend(n, p, k))
    /\ WF_vars(\E n \in Nodes, p \in Procs, k \in 1..Len(PeerAddrs) : PB_PrepReceive(n, p, k))
    /\ WF_vars(\E n \in Nodes, p \in Procs, k \in 1..Len(PeerAddrs) : PB_PrepReply(n, p, k))
    /\ WF_vars(\E n \in Nodes, p \in Procs : PB_CollectVote(n, p))
    /\ WF_vars(\E n \in Nodes, p \in Procs : PB_Decide(n, p))
    /\ WF_vars(\E msg \in net : DeliverDecide(msg))
    /\ WF_vars(\E n \in Nodes : BroadcastQueueState(n))
    /\ WF_vars(\E n \in Nodes, p \in Procs : AdminApply(n, p))
    /\ WF_vars(\E t \in timers : Len(queue[t[1]].Results) < MaxPullRounds /\ TimerFires(t))
    /\ WF_vars(\E msg \in net : DeliverSync(msg))
    /\ WF_vars(\E t \in TimePoints : QuietCalls /\ AdvanceTime(t))
    /\ WF_vars(\E n \in Nodes : QuietCalls /\ PullQueueState(n))
    /\ WF_vars(\E n \in Nodes : ApplyPulledState(n))

SpecPull == InitPull /\ [][NextPull]_vars /\ FairnessPull

(***************************************************************************)
(* The results of the items: a two-node cluster after its first election   *)
(* runs its items to their deadlines while two clients bid, one after the  *)
(* other, each while the cluster is quiet.                                 *)
(***************************************************************************)
ResultClusterSize == 2
MaxResultBids == 2
MaxResultRounds == 2

InitResult ==
    /\ ElectedInit(1..ResultClusterSize, {})
    /\ budget = [NoBudget EXCEPT !.slots = MaxBidProcs, !.bids = MaxResultBids]

NextResult ==
    \/ BidSteps
    \/ \E t \in timers : Len(queue[t[1]].Results) < MaxResultRounds /\ TimerFires(t)
    \/ \E msg \in net : DeliverSync(msg)
    \/ \E t \in TimePoints : QuietCalls /\ AdvanceTime(t)

SpecResult == InitResult /\ [][NextResult]_vars

(***************************************************************************)
(* A follower rejoins: in a two-node cluster after its first election the  *)
(* process of the follower is killed and started again. Its boot election  *)
(* makes the coordinator run StartElection once more (HandleElection), win *)
(* again and spawn another OnBecomeCoordinator. Every ELECTION call is     *)
(* answered within the 2 s wait of its StartElection, and no item deadline *)
(* falls into an election. Items run to their deadlines meanwhile, and     *)
(* time passes while snapshot calls are in flight.                         *)
(***************************************************************************)
RejoinClusterSize == 2
MaxRejoinRounds == 3
MaxRejoinElections == 2

\* The process of a node that is not the leader is killed.
CrashFollower(n) == coordinator[n] # NodeIDs[n] /\ Crash(n)

\* Every ELECTION call of the StartElection in slot e of node n has resolved.
ElectionAnswered(n, e) ==
    \A k \in DOMAIN elec[n].inst[e].calls : elec[n].inst[e].calls[k] = "none"

\* No StartElection is in its wait and no OnBecomeCoordinator is pending.
NoElectionRuns == \A n \in Nodes : elec[n].obc = 0 /\ \A e \in ElecSlots : ElecFree(n, e)

InitRejoin ==
    /\ ElectedInit(1..RejoinClusterSize, {})
    /\ budget = [NoBudget EXCEPT !.crashes = 1, !.starts = 1, !.elections = MaxRejoinElections]

NextRejoin ==
    \/ \E n \in Nodes : CrashFollower(n)
    \/ \E n \in Nodes : StartNode(n)
    \/ \E n \in Nodes, e \in ElecSlots, k \in 1..Len(PeerAddrs) : DeliverElection(n, e, k)
    \/ \E n \in Nodes, e \in ElecSlots : ElectionAnswered(n, e) /\ DecideElection(n, e)
    \/ \E msg \in net : DeliverCoordinator(msg)
    \/ \E n \in Nodes : OnBecomeCoordinator(n)
    \/ \E t \in timers : Len(queue[t[1]].Results) < MaxRejoinRounds /\ TimerFires(t)
    \/ \E msg \in net : DeliverSync(msg)
    \/ \E t \in TimePoints : NoElectionRuns /\ AdvanceTime(t)

SpecRejoin == InitRejoin /\ [][NextRejoin]_vars

(***************************************************************************)
(* Bids over HTTP on any node: a two-node cluster after its first election *)
(* takes one bid at either node while it is quiet; a follower forwards it  *)
(* to the coordinator it knows. The operator kills one process at any      *)
(* moment, also while the bid is being handled, and may start it again;    *)
(* the elections that follow run, every ELECTION call being answered       *)
(* within the wait of its StartElection.                                   *)
(***************************************************************************)
ForwardClusterSize == 2
MaxForwardElections == 2

\* The process of the leader is killed.
CrashLeader(n) == coordinator[n] = NodeIDs[n] /\ Crash(n)

InitForward ==
    /\ ElectedInit(1..ForwardClusterSize, {})
    /\ budget = [NoBudget EXCEPT !.slots = MaxBidProcs, !.bids = MaxBids,
                                 !.crashes = 1, !.starts = 1,
                                 !.elections = MaxForwardElections]

NextForward ==
    \/ \E n \in Nodes, p \in Procs, amount \in ValidAmounts, bidder \in Range(Bidders) :
          Quiet /\ HandleBidRequest(n, p, amount, bidder)
    \/ \E n \in Nodes, p \in Procs, q \in Procs : DeliverSubmitBid(n, p, q)
    \/ \E n \in Nodes, p \in Procs : ForwardReturns(n, p)
    \/ \E n \in Nodes, p \in Procs : ForwardBreaks(n, p)
    \/ BidSteps
    \/ \E n \in Nodes : CrashLeader(n)
    \/ \E n \in Nodes : StartNode(n)
    \/ \E n \in Nodes, e \in ElecSlots : NoCallRuns /\ MonitorTimeout(n, e)
    \/ \E n \in Nodes, e \in ElecSlots, k \in 1..Len(PeerAddrs) : DeliverElection(n, e, k)
    \/ \E n \in Nodes, e \in ElecSlots : ElectionAnswered(n, e) /\ DecideElection(n, e)
    \/ \E msg \in net : DeliverCoordinator(msg)
    \/ \E n \in Nodes : OnBecomeCoordinator(n)
    \/ \E msg \in net : DeliverSync(msg)

SpecForward == InitForward /\ [][NextForward]_vars

(***************************************************************************)
(* The launch with every ELECTION call followed, also those to the node    *)
(* itself and to peers of lower rank: the nodes of the cluster are started *)
(* in any order and at any pace, the wait of a StartElection may end       *)
(* before its calls are answered, and MonitorLeader times out when nobody  *)
(* sends heartbeats.                                                       *)
(***************************************************************************)
BullyClusterSize == 2
MaxBullyElections == 3

InitBully ==
    /\ BootInit(1..BullyClusterSize)
    /\ budget = [NoBudget EXCEPT !.starts = BullyClusterSize,
                                 !.elections = MaxBullyElections,
                                 !.allCalls = 1]

NextBully ==
    \/ \E n \in Nodes : StartNode(n)
    \/ \E n \in Nodes, e \in ElecSlots, k \in 1..Len(PeerAddrs) : DeliverElection(n, e, k)
    \/ \E n \in Nodes, e \in ElecSlots : DecideElection(n, e)
    \/ \E msg \in net : DeliverCoordinator(msg)
    \/ \E n \in Nodes, e \in ElecSlots : MonitorTimeout(n, e)
    \/ \E n \in Nodes : OnBecomeCoordinator(n)

SpecBully == InitBully /\ [][NextBully]_vars

(***************************************************************************)
(* Pending transactions: a two-node cluster after its first election takes *)
(* one bid at the coordinator; the vote timer may fire before the votes    *)
(* are in, the operator may kill the coordinator at any moment of the      *)
(* protocol, and abortStalePreparedTxns ticks on every running node. Every *)
(* call that was made resolves, every goroutine runs, and time passes.     *)
(***************************************************************************)
SweepClusterSize == 2
\* The last second of the behaviours: the entries of the transaction are
\* made at second 1 or when an earlier one has become stale, one by the
\* coordinator and one by each PREPARE call.
MaxSweepTime == 1 + (SweepClusterSize + 1) * (preparedTxnTTL + 1)

InitSweep ==
    /\ ElectedInit(1..SweepClusterSize, {})
    /\ budget = [NoBudget EXCEPT !.slots = MaxBidProcs, !.bids = MaxBids, !.crashes = 1]

NextSweep ==
    \/ BidSteps
    \/ \E n \in Nodes, p \in Procs : PB_VoteTimeout(n, p)
    \/ \E msg \in net : DeliverSync(msg)
    \/ \E n \in Nodes : CrashLeader(n)
    \/ \E n \in Nodes : abortStalePreparedTxns(n)
    \/ \E t \in 1..MaxSweepTime : TTLPasses(t)

FairnessSweep ==
    /\ WF_vars(BidSteps)
    /\ WF_vars(\E msg \in net : DeliverSync(msg))
    /\ WF_vars(\E n \in Nodes : abortStalePreparedTxns(n))
    /\ WF_vars(\E t \in 1..MaxSweepTime : TTLPasses(t))

SpecSweep == InitSweep /\ [][NextSweep]_vars /\ FairnessSweep

(***************************************************************************)
(* Vote collection with peers that may never answer: the bid              *)
(* specification on two nodes, the node of rank 1 running or down. The     *)
(* vote timer fires when its time has come and the collect loop and the    *)
(* decision run; nothing is assumed about the PREPARE calls.               *)
(***************************************************************************)
CollectClusterSize == 2

InitCollect ==
    /\ \E d \in 0..1 : ElectedInit(1..CollectClusterSize, 1..d)
    /\ budget = [NoBudget EXCEPT !.slots = MaxBidProcs, !.bids = MaxBids]

FairnessCollect ==
    /\ WF_vars(\E n \in Nodes, p \in Procs : PB_VoteTimeout(n, p))
    /\ WF_vars(\E n \in Nodes, p \in Procs : PB_Decide(n, p))

SpecCollect == InitCollect /\ [][Next2PC]_vars /\ FairnessCollect

(***************************************************************************)
(* A bid while the follower's sync ticker runs: a two-node cluster after   *)
(* its first election takes one bid at the coordinator, and the            *)
(* periodicStateSync of the follower ticks at any moment; the reply of     *)
(* GetQueueState travels while the protocol of the bid goes on.            *)
(***************************************************************************)
StaleClusterSize == 2

InitStale ==
    /\ ElectedInit(1..StaleClusterSize, {})
    /\ budget = [NoBudget EXCEPT !.slots = MaxBidProcs, !.bids = MaxBids]

NextStale ==
    \/ BidSteps
    \/ \E msg \in net : DeliverSync(msg)
    \/ \E n \in Nodes : PullQueueState(n)
    \/ \E n \in Nodes : ApplyPulledState(n)

SpecStale == InitStale /\ [][NextStale]_vars

(***************************************************************************)
(* Checkpoint and restore on one node that is its own cluster: its items   *)
(* run to their deadlines, a client bids, every checkpoint goroutine the   *)
(* item timer spawns runs, and the operator kills the process and starts   *)
(* it again while it is quiet.                                             *)
(***************************************************************************)
MaxRestoreCrashes == 1

InitRestore ==
    /\ ElectedInit({1}, {})
    /\ budget = [NoBudget EXCEPT !.slots = MaxBidProcs, !.bids = MaxBids,
                                 !.crashes = MaxRestoreCrashes, !.starts = MaxRestoreCrashes,
                                 !.elections = MaxRestoreCrashes]

NextRestore ==
    \/ BidSteps
    \/ \E t \in timers : TimerFires(t)
    \/ \E msg \in net : DeliverSync(msg)
    \/ \E t \in TimePoints : Quiet /\ AdvanceTime(t)
    \/ \E n \in Nodes : InitiateGlobalCheckpoint(n)
    \/ \E msg \in net : DeliverTakeCheckpoint(msg)
    \/ \E n \in Nodes : Quiet /\ Crash(n)
    \/ \E n \in Nodes : Quiet /\ StartNode(n)
    \/ \E n \in Nodes, e \in ElecSlots : DecideElection(n, e)
    \/ \E msg \in net : DeliverCoordinator(msg)
    \/ \E n \in Nodes : OnBecomeCoordinator(n)

SpecRestore == InitRestore /\ [][NextRestore]_vars

(***************************************************************************)
(* saveCheckpoint step by step, on one node that is its own cluster: the   *)
(* item timer spawns the two checkpoint goroutines of finalize and         *)
(* startNextItem, each writes the .tmp file and renames it, and the        *)
(* operator may kill the process at any moment and start it again. The     *)
(* TakeCheckpoint calls a goroutine makes after its local checkpoint are   *)
(* not followed.                                                           *)
(***************************************************************************)
MaxSaveCrashes == 1
MaxSaveRounds == 2

\* A part of a file that was never written (a hole reads as zero bytes).
Hole == [doc |-> JsonNull, part |-> 0]

\* The bytes of a file after a write of chunk as its i-th part.
Written(content, i, chunk) ==
    [j \in 1..Max(i, Len(content)) |->
        IF j = i THEN chunk
        ELSE IF j <= Len(content) THEN content[j]
        ELSE Hole]

\* A spawned initiateGlobalCheckpoint runs up to the os.WriteFile of
\* saveCheckpoint: the coordinator test, the clock tick, the snapshot of
\* takeLocalCheckpoint and json.MarshalIndent.
SaveCall(n, p) ==
    /\ alive[n]
    /\ cpg[n] > 0
    /\ FirstIdle(n, p)
    /\ cpg' = [cpg EXCEPT ![n] = @ - 1]
    /\ IF IsCoordinator(n)
       THEN /\ clock' = [clock EXCEPT ![n] = Tick(@)]
            /\ proc' = [proc EXCEPT ![n][p] =
                          [IdleProc EXCEPT !.pc = "sv-open",
                                           !.save.doc = MarshalCheckpoint(
                                               CheckpointOf(queue[n], Tick(clock[n]), now))]]
       ELSE UNCHANGED <<clock, proc>>
    /\ UNCHANGED <<peers, alive, now, ra, electVars, queue, pendingTxns, bcast, hist,
                   timers, ckpt, pull, net, budget>>

\* os.WriteFile opens the .tmp file with O_WRONLY|O_CREATE|O_TRUNC: the file
\* is created, or the file that has the name is cut to length 0.
SaveOpen(n, p) ==
    /\ alive[n]
    /\ proc[n][p].pc = "sv-open"
    /\ ckpt' = [ckpt EXCEPT ![n].tmp = [exists |-> TRUE, content |-> <<>>]]
    /\ proc' = [proc EXCEPT ![n][p].pc = "sv-write", ![n][p].save.fd = "tmp"]
    /\ UNCHANGED <<peers, alive, now, clock, ra, electVars, queue, pendingTxns, bcast,
                   hist, timers, cpg, pull, net, budget>>

\* The next part of b is written at the descriptor's offset, into the file
\* the descriptor is open on, whatever its name is by now.
SaveWrite(n, p) ==
    /\ alive[n]
    /\ proc[n][p].pc = "sv-write"
    /\ LET i == proc[n][p].save.part + 1
           chunk == [doc |-> proc[n][p].save.doc, part |-> i]
       IN /\ ckpt' = [ckpt EXCEPT ![n] =
                        CASE proc[n][p].save.fd = "tmp" ->
                               [@ EXCEPT !.tmp.content = Written(@, i, chunk)]
                          [] proc[n][p].save.fd = "path" ->
                               [@ EXCEPT !.content = Written(@, i, chunk)]
                          [] OTHER -> @]
          /\ proc' = [proc EXCEPT ![n][p].save.part = i,
                                  ![n][p].pc = IF i = FileParts THEN "sv-rename" ELSE "sv-write"]
    /\ UNCHANGED <<peers, alive, now, clock, ra, electVars, queue, pendingTxns, bcast,
                   hist, timers, cpg, pull, net, budget>>

\* The file a descriptor is open on after os.Rename(tmp, path) has moved the
\* .tmp file over the checkpoint file.
Renamed(fd) == IF fd = "tmp" THEN "path" ELSE IF fd = "path" THEN "gone" ELSE fd

\* WriteFile has closed its descriptor; os.Rename(tmp, path) replaces the
\* checkpoint file by the .tmp file, or fails when no .tmp file exists, and
\* saveCheckpoint returns.
SaveRename(n, p) ==
    /\ alive[n]
    /\ proc[n][p].pc = "sv-rename"
    /\ IF ckpt[n].tmp.exists
       THEN /\ ckpt' = [ckpt EXCEPT ![n] = [exists |-> TRUE, content |-> ckpt[n].tmp.content,
                                            tmp |-> NoFile]]
            /\ proc' = [proc EXCEPT ![n] =
                          [q \in Procs |->
                             IF q = p THEN [proc[n][q] EXCEPT !.pc = "done", !.save.fd = ""]
                             ELSE [proc[n][q] EXCEPT !.save.fd = Renamed(@)]]]
       ELSE /\ ckpt' = ckpt
            /\ proc' = [proc EXCEPT ![n][p].pc = "done", ![n][p].save.fd = ""]
    /\ UNCHANGED <<peers, alive, now, clock, ra, electVars, queue, pendingTxns, bcast,
                   hist, timers, cpg, pull, net, budget>>

InitSave ==
    /\ ElectedInit({1}, {})
    /\ budget = [NoBudget EXCEPT !.slots = MaxProcs,
                                 !.crashes = MaxSaveCrashes, !.starts = MaxSaveCrashes,
                                 !.elections = MaxSaveCrashes]

NextSave ==
    \/ \E t \in timers : Len(queue[t[1]].Results) < MaxSaveRounds /\ TimerFires(t)
    \/ \E msg \in net : DeliverSync(msg)
    \/ \E t \in TimePoints : Quiet /\ AdvanceTime(t)
    \/ \E n \in Nodes, p \in Procs : SaveCall(n, p)
    \/ \E n \in Nodes, p \in Procs : SaveOpen(n, p)
    \/ \E n \in Nodes, p \in Procs : SaveWrite(n, p)
    \/ \E n \in Nodes, p \in Procs : SaveRename(n, p)
    \/ \E n \in Nodes : Crash(n)
    \/ \E n \in Nodes : QuietCalls /\ StartNode(n)
    \/ \E n \in Nodes, e \in ElecSlots : DecideElection(n, e)
    \/ \E msg \in net : DeliverCoordinator(msg)
    \/ \E n \in Nodes : OnBecomeCoordinator(n)

SpecSave == InitSave /\ [][NextSave]_vars

(***************************************************************************)
(* The Lamport clock by itself: goroutines of one node call Tick, Update   *)
(* and Get concurrently. Every method locks c.mu, runs its body statement  *)
(* by statement, evaluates the return expression and unlocks (deferred).   *)
(***************************************************************************)
MaxClockOps == 3
ReceivedTimes == {0, 2, 4}
ClockMethods == {"Tick", "Update", "Get"}

\* The callers of node n that hold c.mu.
HoldsClock(n) ==
    {p \in Procs : proc[n][p].pc \in {"clk-compare", "clk-load", "clk-store",
                                      "clk-return", "clk-unlock"}}

\* Update's if statement on the stored time t.
ClockRaisedNever(t, receivedTime) == t

ClockRaised(t, receivedTime) == IF receivedTime > t THEN receivedTime ELSE t

\* A goroutine of node n calls a method of the clock and reaches c.mu.Lock().
ClockCall(n, p, op, r) ==
    /\ alive[n]
    /\ FirstIdle(n, p)
    /\ budget.clockOps > 0
    /\ budget' = [budget EXCEPT !.clockOps = @ - 1]
    /\ proc' = [proc EXCEPT ![n][p] =
                  [IdleProc EXCEPT !.pc = "clk-lock", !.op = op,
                                   !.clk = [NoClockCall EXCEPT !.receivedTime = r]]]
    /\ UNCHANGED <<peers, alive, now, clock, ra, electVars, storeVars, net>>

\* c.mu.Lock() returns: nobody else holds the mutex.
ClockLock(n, p) ==
    /\ proc[n][p].pc = "clk-lock"
    /\ HoldsClock(n) = {}
    /\ proc' = [proc EXCEPT ![n][p].pc =
                  CASE proc[n][p].op = "Tick" -> "clk-load"
                    [] proc[n][p].op = "Update" -> "clk-compare"
                    [] OTHER -> "clk-return",
                            ![n][p].clk.old = clock[n]]
    /\ UNCHANGED <<peers, alive, now, clock, ra, electVars, storeVars, net, budget>>

\* Update: if receivedTime > c.time { c.time = receivedTime }.
ClockCompare(n, p) ==
    /\ proc[n][p].pc = "clk-compare"
    /\ clock' = [clock EXCEPT ![n] = ClockRaised(@, proc[n][p].clk.receivedTime)]
    /\ proc' = [proc EXCEPT ![n][p].pc = "clk-load"]
    /\ UNCHANGED <<peers, alive, now, ra, electVars, storeVars, net, budget>>

\* c.time++, the read.
ClockLoad(n, p) ==
    /\ proc[n][p].pc = "clk-load"
    /\ proc' = [proc EXCEPT ![n][p].pc = "clk-store", ![n][p].clk.t = clock[n]]
    /\ UNCHANGED <<peers, alive, now, clock, ra, electVars, storeVars, net, budget>>

\* c.time++, the write.
ClockStore(n, p) ==
    /\ proc[n][p].pc = "clk-store"
    /\ clock' = [clock EXCEPT ![n] = proc[n][p].clk.t + 1]
    /\ proc' = [proc EXCEPT ![n][p].pc = "clk-return"]
    /\ UNCHANGED <<peers, alive, now, ra, electVars, storeVars, net, budget>>

\* return c.time: the result is evaluated before the deferred Unlock runs.
ClockReturn(n, p) ==
    /\ proc[n][p].pc = "clk-return"
    /\ proc' = [proc EXCEPT ![n][p].pc = "clk-unlock", ![n][p].clk.ret = clock[n]]
    /\ UNCHANGED <<peers, alive, now, clock, ra, electVars, storeVars, net, budget>>

\* The deferred c.mu.Unlock(); the caller has its value. hist.clockOps keeps
\* the calls of the node in the order of their locked sections.
ClockUnlock(n, p) ==
    /\ proc[n][p].pc = "clk-unlock"
    /\ proc' = [proc EXCEPT ![n][p].pc = "done"]
    /\ hist' = [hist EXCEPT !.clockOps =
                  Append(@, [node |-> n, op |-> proc[n][p].op,
                             receivedTime |-> proc[n][p].clk.receivedTime,
                             old |-> proc[n][p].clk.old,
                             ret |-> proc[n][p].clk.ret])]
    /\ UNCHANGED <<peers, alive, now, clock, ra, electVars, queue, pendingTxns,
                   bcast, auxVars, net, budget>>

InitClock ==
    /\ ElectedInit({1}, {})
    /\ budget = [NoBudget EXCEPT !.slots = MaxProcs, !.clockOps = MaxClockOps]

NextClock ==
    \/ \E n \in Nodes, p \in Procs, op \in ClockMethods, r \in ReceivedTimes :
          (op = "Update" \/ r = 0) /\ ClockCall(n, p, op, r)
    \/ \E n \in Nodes, p \in Procs : ClockLock(n, p)
    \/ \E n \in Nodes, p \in Procs : ClockCompare(n, p)
    \/ \E n \in Nodes, p \in Procs : ClockLoad(n, p)
    \/ \E n \in Nodes, p \in Procs : ClockStore(n, p)
    \/ \E n \in Nodes, p \in Procs : ClockReturn(n, p)
    \/ \E n \in Nodes, p \in Procs : ClockUnlock(n, p)

SpecClock == InitClock /\ [][NextClock]_vars

\* The callers of node n between RequestCS returning and ReleaseCS.
InCS(n) == {p \in Procs : proc[n][p].pc \in {"cs", "collect"}}

\* C2: on one node at most one caller is between RequestCS returning and
\* ReleaseCS.
C2_OneTransactionInCS == \A n \in Nodes : Cardinality(InCS(n)) <= 1

\* C1: when no node fails, at most one node of the cluster is inside the
\* critical section.
C1_MutualExclusion == \A a, b \in Nodes : (InCS(a) # {} /\ InCS(b) # {}) => a = b

\* C3: when all nodes are correct and every RPC is delivered, every call of
\* RequestCS eventually returns.
C3_RequestCSReturns ==
    \A n \in Nodes, p \in Procs : (proc[n][p].pc = "wait") ~> (proc[n][p].pc = "cs")

\* The nodes behind the --peers list of node n, and n itself.
Participants(n) == {n} \cup {Resolve(peers[n][k]) : k \in DOMAIN peers[n]}

\* The distinct nodes whose YES the call in slot p of node n has counted:
\* the coordinator (votes starts at 1) and the senders of the YES replies.
YesNodes(n, p) ==
    {n} \cup {Resolve(proc[n][p].tally[i].from) :
                i \in {j \in DOMAIN proc[n][p].tally : proc[n][p].tally[j].yes}}

YesReplies(pr) == Cardinality({i \in DOMAIN pr.tally : pr.tally[i].yes})

\* The step in which the ProposeBid of slot p of node n decides and returns.
Decides(n, p) == proc[n][p].pc = "collect" /\ proc'[n][p].pc = "done"

\* C4: a bid commits only when a strict majority of the distinct nodes of
\* the cluster voted YES (three distinct nodes in the four-node deployment),
\* no node's vote being counted twice.
C4_CommitNeedsMajority ==
    \A n \in Nodes, p \in Procs :
        (proc[n][p].pc = "done" /\ proc[n][p].ok) =>
            2 * Cardinality(YesNodes(n, p)) > Cardinality(Participants(n))

\* C5: ProposeBid commits exactly when 1 + (the YES replies its collect loop
\* took before the vote timer fired) reaches floor((N+1)/2)+1, N the length
\* of the peer list; errors, NO replies and replies not taken count as NO;
\* and a decision other than commit leaves the coordinator's highest bid and
\* winner as they were.
C5_CommitRule ==
    [][\A n \in Nodes, p \in Procs :
          Decides(n, p) =>
            LET commit == 1 + YesReplies(proc[n][p]) >= (Len(peers[n]) + 1) \div 2 + 1
            IN /\ (proc'[n][p].ok <=> commit)
               /\ (proc'[n][p].message = "Bid committed by quorum" <=> commit)
               /\ (~commit =>
                    /\ queue'[n].CurrentHighestBid = queue[n].CurrentHighestBid
                    /\ queue'[n].CurrentWinner = queue[n].CurrentWinner)]_vars

\* C5 witness: a bid committed although one of the replies taken was a NO
\* (here the error of a call to a node that is down).
C5_Witness ==
    \E n \in Nodes, p \in Procs :
        /\ proc[n][p].pc = "done" /\ proc[n][p].ok
        /\ \E i \in DOMAIN proc[n][p].tally : ~proc[n][p].tally[i].yes

\* The calls of node m that the step completes.
Delivered(m) == {msg \in net \ net' : Resolve(msg.to) = m}

Proposes(n, p) == budget'.bids < budget.bids /\ proc'[n][p] # proc[n][p]

\* The step in which the call in slot p of node n leaves the re-check.
Rechecks(n, p) == proc[n][p].pc = "cs" /\ proc[n][p].bid # NoBid /\ proc'[n][p].pc # "cs"

\* C7: ProposeBid rejects the bid, sends no PREPARE and changes no auction
\* state whenever the auction is inactive, there is no current item, the
\* amount is not above the highest bid (equality included) or the deadline
\* has come (equality included), at the fast-fail check and at the re-check
\* in the critical section; a failed re-check releases the critical section.
C7_RejectsInvalidBid ==
    [][\A n \in Nodes, p \in Procs :
          /\ Proposes(n, p) =>
               LET bid == proc'[n][p].bid
                   valid == /\ queue[n].Active
                            /\ queue[n].CurrentItem # NoItem
                            /\ bid.Amount > queue[n].CurrentHighestBid
                            /\ now < queue[n].DeadlineUnix
               IN ~valid =>
                    /\ proc'[n][p].pc = "done" /\ ~proc'[n][p].ok
                    /\ proc'[n][p].message = "Bid must be higher than current highest bid (or auction inactive)"
                    /\ proc'[n][p].prc = <<>> /\ proc'[n][p].rac = <<>>
                    /\ UNCHANGED <<queue, pendingTxns, net, ra, clock, bcast>>
          /\ Rechecks(n, p) =>
               LET bid == proc[n][p].bid
                   valid == /\ queue[n].Active
                            /\ queue[n].CurrentItem # NoItem
                            /\ bid.Amount > queue[n].CurrentHighestBid
                            /\ now < queue[n].DeadlineUnix
               IN ~valid =>
                    /\ proc'[n][p].pc = "done" /\ ~proc'[n][p].ok
                    /\ proc'[n][p].message = "Bid became stale during coordination"
                    /\ proc'[n][p].prc = <<>>
                    /\ ~ra'[n].RequestingCS
                    /\ UNCHANGED <<queue, pendingTxns, clock, bcast>>
                    /\ \A msg \in net' \ net : msg.type = "RADeferredReply"]_vars

\* C7 witness: a bid that passed the fast-fail check was rejected by the
\* re-check because the deadline came, to the second, while it waited for
\* the critical section.
C7_Witness ==
    \E n \in Nodes, p \in Procs :
        /\ proc[n][p].pc = "done"
        /\ proc[n][p].message = "Bid became stale during coordination"
        /\ now = queue[n].DeadlineUnix


\* The committed bid b is in the state of node n: on the open item, or in
\* the result of the item.
Present(n, b) ==
    \/ /\ queue[n].CurrentItem # NoItem
       /\ queue[n].CurrentItem.ID = b.Item
       /\ queue[n].CurrentHighestBid >= b.Bid.Amount
    \/ \E i \in DOMAIN queue[n].Results :
          /\ queue[n].Results[i].Item.ID = b.Item
          /\ queue[n].Results[i].WinningBid >= b.Bid.Amount

\* The bids the clients can get committed on the first item.
CommittableBids ==
    { [Item |-> Head(defaultItems).ID, Bid |-> [Amount |-> a, Bidder |-> Bidders[i]]] :
        a \in ValidAmounts, i \in 1..MaxBids }

\* C8: a committed bid is never lost: once ProposeBid has reported the bid
\* b on item I as committed, every running node eventually has I open with
\* a highest bid of at least b, or a result of I with a winning bid of at
\* least b.
C8_CommittedBidNeverLost ==
    \A b \in CommittableBids : \A n \in Nodes :
        (b \in hist.committed /\ alive[n]) ~> Present(n, b)

\* Every node of the cluster runs, nothing is in flight, the nodes agree on
\* the coordinator and on the queue.
Converged ==
    /\ Quiet
    /\ \A n \in Nodes : peers[n] # <<>> => alive[n]
    /\ \E c \in Nodes :
          /\ alive[c]
          /\ \A n \in Nodes : alive[n] => coordinator[n] = NodeIDs[c] /\ queue[n] = queue[c]

\* C9: crash-restart durability: after any of the nodes have stopped and
\* restarted from their checkpoint files, the converged state of the
\* cluster holds every bid that was committed before the crash.
C9_CrashRestartDurability ==
    Converged => \A b \in hist.beforeCrash : \A n \in Nodes : alive[n] => Present(n, b)

\* Node n acts as coordinator: its coordinator id is its own, or it passes
\* the coordinator test of the bid, timer and checkpoint paths.
ActsAsCoordinator(n) == alive[n] /\ (coordinator[n] = NodeIDs[n] \/ IsCoordinator(n))

\* C10: at any moment at most one running node acts as coordinator (all
\* running nodes reach each other).
C10_AtMostOneCoordinator ==
    \A a, b \in Nodes : ActsAsCoordinator(a) /\ ActsAsCoordinator(b) => a = b


\* Node h is the highest-ranked running node.
HighestLive(h) == alive[h] /\ \A m \in Nodes : alive[m] => m <= h

\* C11: election liveness: eventually every running node has the
\* highest-ranked running node as its coordinator, and this stays so (no
\* node stops in the launch), whatever the order of the elections and of
\* the deliveries. Behaviours that use up the elections the model follows
\* are left out: there the model stops where the code would go on.
C11_ElectionConverges ==
    <>[](\/ budget.elections = 0
         \/ \A h, n \in Nodes : (HighestLive(h) /\ alive[n]) => coordinator[n] = NodeIDs[h])


\* C12: invariant I1 in every state of every running node, the one built
\* from the default seed or from a checkpoint included: an open item implies
\* a deadline and an active auction.
C12_OpenItemHasDeadline ==
    \A n \in Nodes :
        (alive[n] /\ queue[n].CurrentItem # NoItem) =>
            (queue[n].DeadlineUnix > 0 /\ queue[n].Active)

\* C13: invariant I4 in every state of every running node: an inactive
\* auction has an empty queue and no open item.
C13_InactiveMeansEmpty ==
    \A n \in Nodes :
        (alive[n] /\ ~queue[n].Active) =>
            (queue[n].Queue = <<>> /\ queue[n].CurrentItem = NoItem)

\* The sequence s is a prefix of the sequence t.
IsPrefix(s, t) == Len(s) <= Len(t) /\ \A i \in 1..Len(s) : s[i] = t[i]

\* C14: the results list of a node is append-only: every step leaves a list
\* that has the old one as a prefix.
C14_ResultsAppendOnly ==
    [][\A n \in Nodes : (alive[n] /\ alive'[n]) => IsPrefix(queue[n].Results, queue'[n].Results)]_vars

\* C15: the results lists of any two running nodes are consistent: one is a
\* prefix of the other.
C15_ResultsConsistent ==
    \A a, b \in Nodes :
        (alive[a] /\ alive[b]) =>
            (IsPrefix(queue[a].Results, queue[b].Results) \/ IsPrefix(queue[b].Results, queue[a].Results))

\* C16: on every running node an open item has CurrentHighestBid >=
\* StartingPrice - 1 (I2), and every step that applies a commit decision (the
\* coordinator's own at the end of ProposeBid, a peer's on a DECIDE with
\* commit = true) and changes CurrentHighestBid sets it to the amount of the
\* decided bid, strictly greater than the node's value before the step (P1).
C16_HighestBidBounds ==
    /\ [](\A n \in Nodes :
            (alive[n] /\ queue[n].CurrentItem # NoItem) =>
                queue[n].CurrentHighestBid >= queue[n].CurrentItem.StartingPrice - 1)
    /\ [][/\ \A n \in Nodes, p \in Procs :
               (/\ Decides(n, p)
                /\ proc'[n][p].ok
                /\ queue'[n].CurrentHighestBid # queue[n].CurrentHighestBid) =>
                   /\ queue'[n].CurrentHighestBid = proc[n][p].bid.Amount
                   /\ queue'[n].CurrentHighestBid > queue[n].CurrentHighestBid
          /\ \A m \in Nodes : \A msg \in Delivered(m) :
               (/\ alive[m]
                /\ msg.type = "DecideBid"
                /\ msg.body.Commit
                /\ queue'[m].CurrentHighestBid # queue[m].CurrentHighestBid) =>
                   /\ queue'[m].CurrentHighestBid =
                         DecisionBid(pendingTxns[m], msg.body.TxnID, msg.body.Bid).Amount
                   /\ queue'[m].CurrentHighestBid > queue[m].CurrentHighestBid]_vars

\* C16 witness: a node has applied a committed bid to the first item, has
\* finalized it with that winner, and has the next item open at its starting
\* floor.
C16_Witness ==
    \E n \in Nodes :
        /\ alive[n]
        /\ queue[n].Results # <<>>
        /\ queue[n].Results[1].Winner \in Range(Bidders)
        /\ queue[n].Results[1].WinningBid = Head(defaultItems).StartingPrice
        /\ queue[n].CurrentItem # NoItem
        /\ queue[n].CurrentItem.ID # Head(defaultItems).ID
        /\ queue[n].CurrentHighestBid = queue[n].CurrentItem.StartingPrice - 1

\* C17: per node, in the order of their locked sections, every Tick returns
\* old + 1, every Update(r) returns max(old, r) + 1 (greater than both old
\* and r), every Get returns the time it found and leaves it unchanged, each
\* call finds the time the call before it left, and the values Tick and
\* Update return are strictly increasing, however the concurrent callers
\* interleave. The operators Tick and Update give the values of the calls.
C17_ClockStrictlyIncreasing ==
    LET ops == hist.clockOps
        after(h) == IF h.op = "Get" THEN h.old ELSE h.ret
    IN \A i \in DOMAIN ops :
          LET h == ops[i]
          IN /\ h.op = "Tick" => (h.ret = h.old + 1 /\ h.ret = Tick(h.old))
             /\ h.op = "Update" =>
                   /\ h.ret = (IF h.old > h.receivedTime THEN h.old ELSE h.receivedTime) + 1
                   /\ h.ret > h.old
                   /\ h.ret > h.receivedTime
                   /\ h.ret = Update(h.old, h.receivedTime)
             /\ h.op = "Get" => h.ret = h.old
             /\ \A j \in DOMAIN ops :
                   (j < i /\ ops[j].node = h.node) =>
                      /\ (\A k \in DOMAIN ops : (j < k /\ k < i) => ops[k].node # h.node) =>
                            h.old = after(ops[j])
                      /\ (h.op # "Get" /\ ops[j].op # "Get") => ops[j].ret < h.ret
                      /\ h.op = "Get" => ops[j].ret <= h.ret

\* C17 witness: an Update that raised the time to its argument has returned,
\* and a Tick has its value and still holds the mutex another caller waits
\* for.
C17_Witness ==
    /\ \E i \in DOMAIN hist.clockOps :
          /\ hist.clockOps[i].op = "Update"
          /\ hist.clockOps[i].receivedTime > hist.clockOps[i].old
    /\ \E n \in Nodes, p, q \in Procs :
          /\ proc[n][p].pc = "clk-lock"
          /\ proc[n][q].pc = "clk-unlock"
          /\ proc[n][q].op = "Tick"
          /\ proc[n][q].clk.ret = proc[n][q].clk.old + 1

\* The timestamps of the REQUEST and PREPARE calls node m has handled and
\* whose callers have not yet taken the reply.
HandledTimestamps(m) ==
    { proc[n][p].rac[k].ts : <<n, p, k>> \in
        { x \in Nodes \X Procs \X (1..Len(PeerAddrs)) :
            /\ x[3] \in DOMAIN proc[x[1]][x[2]].rac
            /\ x[3] \in DOMAIN peers[x[1]]
            /\ Resolve(peers[x[1]][x[3]]) = m
            /\ proc[x[1]][x[2]].rac[x[3]].st = "reply" } }
    \cup
    { proc[n][p].prc[k].ts : <<n, p, k>> \in
        { x \in Nodes \X Procs \X (1..Len(PeerAddrs)) :
            /\ x[3] \in DOMAIN proc[x[1]][x[2]].prc
            /\ x[3] \in DOMAIN peers[x[1]]
            /\ Resolve(peers[x[1]][x[3]]) = m
            /\ proc[x[1]][x[2]].prc[x[3]].st = "reply" } }

\* The step hands the call k of caller p of node n to a running node.
HandlesCall(calls, callsAfter, n, k) ==
    /\ k \in DOMAIN calls
    /\ k \in DOMAIN callsAfter
    /\ k \in DOMAIN peers[n]
    /\ calls[k].st = "sent"
    /\ callsAfter[k].st # "sent"
    /\ Resolve(peers[n][k]) # 0
    /\ alive[Resolve(peers[n][k])]

\* The step builds the message of call k.
BuildsCall(calls, callsAfter, k) ==
    /\ k \in DOMAIN calls
    /\ k \in DOMAIN callsAfter
    /\ calls[k].st = "spawned"
    /\ callsAfter[k].st = "sent"

\* C18: Lamport causality across messages: when a node handles a PREPARE or
\* an RA REQUEST its clock ends strictly greater than the timestamp the
\* message carries, and every timestamp the node puts on a message it builds
\* afterwards is greater than that carried timestamp.
C18_LamportCausality ==
    [][\A n \in Nodes, p \in Procs, k \in 1..Len(PeerAddrs) :
          /\ HandlesCall(proc[n][p].rac, proc'[n][p].rac, n, k) =>
                clock'[Resolve(peers[n][k])] > proc[n][p].rac[k].ts
          /\ HandlesCall(proc[n][p].prc, proc'[n][p].prc, n, k) =>
                clock'[Resolve(peers[n][k])] > proc[n][p].prc[k].ts
          /\ BuildsCall(proc[n][p].rac, proc'[n][p].rac, k) =>
                \A ts \in HandledTimestamps(n) : proc'[n][p].rac[k].ts > ts
          /\ BuildsCall(proc[n][p].prc, proc'[n][p].prc, k) =>
                \A ts \in HandledTimestamps(n) : proc'[n][p].prc[k].ts > ts]_vars

C20_CheckpointNeverPartial ==
    \A n \in Nodes : ckpt[n].exists => WholeDocument(ckpt[n].content)

\* C21: applying a SYNC snapshot is idempotent: after every step in which a
\* node handles SyncQueueState, applying the same snapshot to the state the
\* node has reached would leave that state as it is.
C21_SyncIdempotent ==
    [][\A m \in Nodes : \A msg \in Delivered(m) :
          (alive[m] /\ msg.type = "SyncQueueState") =>
              /\ queue'[m] = applyQueueSnapshot(queue[m], msg.body)
              /\ applyQueueSnapshot(queue'[m], msg.body) = queue'[m]]_vars

\* C21 witness: a follower that holds a result (taken from a snapshot) has a snapshot with fewer results
\* on its way to it (the results are kept, the other fields overwritten), and
\* the snapshot differs from the node's state in some other field.
C21_Witness ==
    \E msg \in net :
        /\ msg.type = "SyncQueueState"
        /\ Resolve(msg.to) # 0
        /\ alive[Resolve(msg.to)]
        /\ ~IsCoordinator(Resolve(msg.to))
        /\ queue[Resolve(msg.to)].Results # <<>>
        /\ Len(msg.body.Results) < Len(queue[Resolve(msg.to)].Results)
        /\ msg.body.CurrentItem # queue[Resolve(msg.to)].CurrentItem

\* C22: a duplicated DECIDE with commit = true is a no-op after its first
\* application. The coordinator applies its decision in ProposeBid and, its
\* own address being in its peer list, is then dialled with the same DECIDE:
\* handling that second copy leaves its queue state and its pending
\* transactions unchanged, whatever happened in between.
C22_DuplicateDecideNoOp ==
    [][\A m \in Nodes : \A msg \in Delivered(m) :
          (/\ alive[m]
           /\ msg.type = "DecideBid"
           /\ msg.body.Commit
           /\ msg.body.Leader = NodeIDs[m]) =>
              /\ queue'[m] = queue[m]
              /\ pendingTxns'[m] = pendingTxns[m]]_vars

\* The step in which the runItemTimer goroutine t finalizes the open item of
\* its node.
Finalizes(t) ==
    /\ t \in timers
    /\ t \notin timers'
    /\ queue'[t[1]] # queue[t[1]]
    /\ Len(queue'[t[1]].Results) = Len(queue[t[1]].Results) + 1
    /\ net' # net

\* C23: every entry finalize appends to the results is {"No bids", 0} when
\* the item closes with CurrentHighestBid <= StartingPrice - 1 and otherwise
\* {CurrentWinner, CurrentHighestBid} with a winning bid of at least the
\* starting price; in every entry WinningBid = 0 iff Winner = "No bids".
C23_ResultEntries ==
    [][\A t \in timers :
          Finalizes(t) =>
              LET q == queue[t[1]]
                  r == queue'[t[1]].Results[Len(queue'[t[1]].Results)]
              IN /\ r.Item = q.CurrentItem
                 /\ (q.CurrentHighestBid <= q.CurrentItem.StartingPrice - 1) =>
                        (r.Winner = "No bids" /\ r.WinningBid = 0)
                 /\ (q.CurrentHighestBid > q.CurrentItem.StartingPrice - 1) =>
                        /\ r.Winner = q.CurrentWinner
                        /\ r.WinningBid = q.CurrentHighestBid
                        /\ r.WinningBid >= r.Item.StartingPrice
                 /\ (r.WinningBid = 0) <=> (r.Winner = "No bids")]_vars

\* C24: anti-snipe extension: a step in which ProposeBid commits a bid while
\* DeadlineUnix - now < antiSnipeWindow sets the coordinator's DeadlineUnix to
\* now + antiSnipeWindow; a commit with DeadlineUnix - now >= antiSnipeWindow
\* leaves the deadline unchanged. Either way a snapshot push is spawned.
C24_AntiSnipeExtension ==
    [][\A n \in Nodes, p \in Procs :
          (Decides(n, p) /\ proc'[n][p].ok) =>
              /\ bcast'[n] = bcast[n] + 1
              /\ queue'[n].DeadlineUnix =
                    IF queue[n].DeadlineUnix - now < antiSnipeWindow
                    THEN now + antiSnipeWindow
                    ELSE queue[n].DeadlineUnix]_vars

\* The step in which maybeExtendDeadline moves the deadline of node n.
Extends(n) ==
    /\ budget'.extends < budget.extends
    /\ queue'[n].DeadlineUnix # queue[n].DeadlineUnix

\* C25: after an anti-snipe extension has moved DeadlineUnix of the open
\* item, the timer keyed by the old deadline changes nothing at its expiry, and
\* a timer bound to the item and its new deadline exists, so that the item is
\* finalized once the new deadline has passed.
C25_ExtensionRespawnsTimer ==
    [][/\ \A t \in timers \ timers' :
             (queue[t[1]].DeadlineUnix # t[3]) => queue'[t[1]] = queue[t[1]]
       /\ \A n \in Nodes :
             Extends(n) =>
                 <<n, queue'[n].CurrentItem.ID, queue'[n].DeadlineUnix>> \in timers']_vars

\* The item with the id i is in the results of the node n and is not its
\* open item any more.
Closed(n, i) ==
    /\ \E k \in DOMAIN queue[n].Results : queue[n].Results[k].Item.ID = i
    /\ queue[n].CurrentItem.ID # i

\* The cluster has come to rest with a leader: nothing is in flight or
\* waiting to run, no election runs, and a heartbeat loop is sending, so that
\* no MonitorLeader times out.
AtRest ==
    /\ net = {}
    /\ \A n \in Nodes :
          /\ elec[n].obc = 0
          /\ \A e \in ElecSlots : ElecFree(n, e)
    /\ \E m \in Nodes : Heartbeating(m)

\* C26: leader failover keeps the auction running: after the coordinator
\* has crashed with an item open, a survivor becomes coordinator, resumes a
\* timer for the item, and the item is finalized into the results. No open
\* item stays open forever: when the cluster has come to rest after the
\* crash, with the deadline passed and no timer left that could still fire,
\* the item that was open has been closed on the node that leads.
C26_FailoverFinalizes ==
    (/\ budget.crashes = 0
     /\ AtRest
     /\ \A n \in Nodes : alive[n] => now >= queue[n].DeadlineUnix
     /\ ~ENABLED <<\E t \in timers : TimerFires(t)>>_vars) =>
        \E n \in Nodes :
            /\ alive[n]
            /\ coordinator[n] = NodeIDs[n]
            /\ Closed(n, Head(defaultItems).ID)

\* Every running follower holds the queue state of the coordinator it
\* follows, field for field.
Replicated ==
    \A n \in Nodes :
        (alive[n] /\ ~IsCoordinator(n) /\ CoordinatorAddress(n) # "") =>
            queue[n] = queue[Resolve(CoordinatorAddress(n))]

\* C27: replica convergence: with one stable coordinator, once the
\* mutations have ended (whichever came last) the periodic pull brings every
\* live follower's queue state to the coordinator's and keeps it there, also
\* when pushed snapshots arrived out of order.
C27_ReplicaConvergence == <>[]Replicated

(***************************************************************************)
(* C28: ReleaseCS clears RequestingCS, empties DeferredReply and delivers  *)
(* one REPLY to every peer whose REQUEST was deferred: a call that reaches *)
(* that peer is dispatched for each deferred entry, and when the call      *)
(* resolves HandleRADeferredReply has run at that peer, whose               *)
(* RepliesNeeded is one lower.                                             *)
(***************************************************************************)
\* The node whose REQUEST put the entry id on a DeferredReply list.
DeferredPeer(id) == RankOfID(id)

C28_ReleaseDeliversDeferred ==
    [][/\ \A n \in Nodes, p \in Procs :
             ReleaseCS(n, p) =>
                /\ ~ra'[n].RequestingCS
                /\ ra'[n].DeferredReply = <<>>
                /\ \A i \in DOMAIN ra[n].DeferredReply :
                      \E msg \in net' \ net :
                         /\ msg.type = "RADeferredReply"
                         /\ msg.from = NodeIDs[n]
                         /\ Resolve(msg.to) = DeferredPeer(ra[n].DeferredReply[i])
       /\ \A msg \in net :
             (msg.type = "RADeferredReply" /\ DeliverDeferredReply(msg)) =>
                LET m == DeferredPeer(msg.to)
                IN ra'[m].RepliesNeeded = ra[m].RepliesNeeded - 1]_vars

(***************************************************************************)
(* C29: Ricart-Agrawala fairness. When two nodes have requests outstanding *)
(* at the same time, the one whose request has the smaller (Lamport        *)
(* timestamp, node id) pair enters the critical section first: a caller    *)
(* that enters while a caller of another node is still waiting holds the   *)
(* smaller pair. A receiver defers its reply iff it is requesting and its  *)
(* RequestTime is below the timestamp of the REQUEST, or equal with its id *)
(* below the sender's, and replies at once otherwise.                      *)
(***************************************************************************)
\* (ta, a) before (tb, b) in the order of requests.
PairLess(ta, a, tb, b) == ta < tb \/ (ta = tb /\ IdLess(NodeIDs[a], NodeIDs[b]))

\* Caller p of node a enters the critical section in this step.
EntersCS(a, p) == proc[a][p].pc = "wait" /\ proc'[a][p].pc = "cs"

C29_EntryOrder ==
    \A a, b \in Nodes, p, q \in Procs :
        (a # b /\ EntersCS(a, p) /\ proc[b][q].pc = "wait") =>
            PairLess(proc[a][p].clk.ret, a, proc[b][q].clk.ret, b)

C29_DeferRule ==
    \A n, m \in Nodes, p \in Procs, k \in 1..Len(PeerAddrs) :
        (RAReceive(n, p, k) /\ m = Resolve(peers[n][k]) /\ m # 0 /\ alive[m]) =>
            LET ts == proc[n][p].rac[k].ts
                defers == /\ ra[m].RequestingCS
                          /\ \/ ra[m].RequestTime < ts
                             \/ ra[m].RequestTime = ts /\ IdLess(NodeIDs[m], NodeIDs[n])
            IN IF defers
               THEN /\ ra'[m].DeferredReply = Append(ra[m].DeferredReply, NodeIDs[n])
                    /\ proc'[n][p].rac[k].st # "reply"
               ELSE /\ ra'[m].DeferredReply = ra[m].DeferredReply
                    /\ proc'[n][p].rac[k].st = "reply"

C29_RAFairness == [][C29_EntryOrder /\ C29_DeferRule]_vars

(***************************************************************************)
(* C30: timer generation guard. An item timer created for (itemId,         *)
(* deadlineUnix) that fires when its node is no longer coordinator, or     *)
(* when CurrentItem is empty, CurrentItem.ID differs from itemId or the    *)
(* live DeadlineUnix differs from its key, returns without changing any    *)
(* queue state: Results, CurrentItem, Queue, the bid fields, DeadlineUnix  *)
(* and Active are unchanged on every node, and nothing is broadcast.       *)
(***************************************************************************)
\* The timer t has outlived its generation.
Superseded(t) ==
    \/ ~IsCoordinator(t[1])
    \/ queue[t[1]].CurrentItem = NoItem
    \/ queue[t[1]].CurrentItem.ID # t[2]
    \/ queue[t[1]].DeadlineUnix # t[3]

C30_TimerGenerationGuard ==
    [][\A t \in timers :
          (Superseded(t) /\ TimerFires(t)) =>
              /\ queue' = queue
              /\ pendingTxns' = pendingTxns
              /\ net' = net
              /\ timers' = timers \ {t}]_vars

\* A timer whose item and deadline are still the live ones is about to fire
\* on a node that has lost the coordinator role.
C30_Witness ==
    \E t \in timers :
        /\ alive[t[1]]
        /\ now >= t[3]
        /\ Len(queue[t[1]].Results) < MaxFailoverRounds
        /\ ~IsCoordinator(t[1])
        /\ queue[t[1]].Active
        /\ queue[t[1]].CurrentItem # NoItem
        /\ queue[t[1]].CurrentItem.ID = t[2]
        /\ queue[t[1]].DeadlineUnix = t[3]


(***************************************************************************)
(* C31: only the coordinator finalizes items. A timer finalizes the open   *)
(* item and starts the next one only on a node that holds its own id as    *)
(* coordinator when the timer expires; a node that is not the coordinator  *)
(* changes its results or its current item only by adopting a snapshot,    *)
(* pushed or pulled.                                                       *)
(***************************************************************************)
\* Node n adopts a snapshot in this step: a pushed one or the pulled one.
AdoptsSnapshot(n) ==
    \/ \E msg \in Delivered(n) :
          msg.type = "SyncQueueState" /\ queue'[n] = applyQueueSnapshot(queue[n], msg.body)
    \/ pull[n].st = "reply" /\ queue'[n] = applyQueueSnapshot(queue[n], pull[n].snap)

OpensHead(n) ==
    LET q  == queue[n]
        q2 == queue'[n]
    IN IF q.Queue = <<>>
       THEN q2.CurrentItem = NoItem /\ ~q2.Active /\ q2.DeadlineUnix = 0
       ELSE /\ q2.CurrentItem = Head(q.Queue)
            /\ q2.Queue = Tail(q.Queue)
            /\ q2.CurrentHighestBid = Head(q.Queue).StartingPrice - 1
            /\ q2.CurrentWinner = ""
            /\ q2.DeadlineUnix = now + Head(q.Queue).DurationSec

\* No item of the default queue, each opened once, has two entries in the
\* results of a node that holds its own id as coordinator.
OneEntryPerOpening ==
    \A n \in Nodes :
        (alive[n] /\ coordinator[n] = NodeIDs[n]) =>
            \A i, j \in DOMAIN queue[n].Results :
                i < j => queue[n].Results[i].Item.ID # queue[n].Results[j].Item.ID

StartsProposeBid(n, p) ==
    /\ budget'.bids < budget.bids
    /\ proc[n][p].pc \in {"idle", "done"}
    /\ proc'[n][p].pc \in {"wait", "cs", "done"}
    /\ proc'[n][p].op = ""
    /\ proc'[n][p] # proc[n][p]

\* The step in which the forwarded call of slot p of node n is refused.
ForwardRefused(n, p) ==
    proc[n][p].pc = "fwd" /\ proc'[n][p].pc = "done" /\ proc'[n][p].message = NotCoordinator

\* The step in which the handler in slot p of node n answers that the
\* leader is unavailable.
AnswersUnavailable(n, p) ==
    /\ proc[n][p].pc \in {"fwd", "fwdwait"}
    /\ proc'[n][p].pc = "done"
    /\ proc'[n][p].message = LeaderUnavailable

\* No node holds the bid: neither as a pending transaction nor as the
\* highest bid of its current item.
NoTraceOf(bid) ==
    \A m \in Nodes :
       /\ \A x \in pendingTxns[m] : x.Bid # bid
       /\ ~(queue[m].CurrentWinner = bid.Bidder /\ queue[m].CurrentHighestBid = bid.Amount)

\* ProposeBid starts only on a node that takes itself for the coordinator.
ProposeBidOnCoordinatorOnly ==
    [][\A n \in Nodes, p \in Procs : StartsProposeBid(n, p) => IsCoordinator(n)]_vars

\* A refused SubmitBidToCoordinator changes nothing but the answer.
RefusalHasNoEffect ==
    [][\A n \in Nodes, p \in Procs :
          ForwardRefused(n, p) =>
             /\ UNCHANGED <<peers, alive, now, clock, ra, electVars, storeVars, net>>
             /\ \A m \in Nodes \ {n} : proc'[m] = proc[m]]_vars

\* C34: a bid that reaches a node that is not the coordinator is forwarded
\* and never run through 2PC there: ProposeBid starts only on a node that
\* takes itself for the coordinator, a SubmitBidToCoordinator that reaches
\* a node that is not the coordinator is refused and changes no state, and
\* when the handler answers that the leader is unavailable no node holds
\* the bid, neither as a pending transaction nor as its highest bid.
C34_ForwardToCoordinator ==
    [][\A n \in Nodes, p \in Procs :
          /\ StartsProposeBid(n, p) => IsCoordinator(n)
          /\ ForwardRefused(n, p) =>
                /\ UNCHANGED <<peers, alive, now, clock, ra, electVars, storeVars, net>>
                /\ \A m \in Nodes \ {n} : proc'[m] = proc[m]
          /\ AnswersUnavailable(n, p) => NoTraceOf(proc[n][p].bid)']_vars

\* The step in which the ELECTION call k of the StartElection in slot e of
\* node n resolves.
ElectionCallResolves(n, e, k) ==
    /\ alive[n] /\ alive'[n]
    /\ k \in DOMAIN elec[n].inst[e].calls
    /\ elec[n].inst[e].calls[k] = "sent"
    /\ k \in DOMAIN elec'[n].inst[e].calls
    /\ elec'[n].inst[e].calls[k] = "none"

\* Node m starts a StartElection in the step.
ElectionStartsOn(m) ==
    \E f \in ElecSlots : elec[m].inst[f].st = "none" /\ elec'[m].inst[f].st = "run"

\* The step in which the wait of the StartElection in slot e of node n ends.
ElectionWaitEnds(n, e) ==
    alive[n] /\ alive'[n] /\ elec[n].inst[e].st = "run" /\ elec'[n].inst[e].st = "none"

\* C35: the steps of the bully election. HandleElection answers OK exactly
\* when the receiver's rank is greater than the sender's, and then the
\* receiver starts an election of its own and the sender, if still in its
\* wait, has receivedOK set; any other receiver starts nothing and sets
\* nothing. At the end of its wait a StartElection sets Coordinator to its
\* own id, fans COORDINATOR out and spawns OnBecomeCoordinator exactly when
\* no OK has arrived during the wait, and changes neither Coordinator nor
\* the calls in flight otherwise.
C35_BullyStepRules ==
    [][/\ \A n \in Nodes, e \in ElecSlots, k \in 1..Len(PeerAddrs) :
             ElectionCallResolves(n, e, k) =>
                LET m == Resolve(peers[n][k])
                IN IF m # 0 /\ alive[m] /\ m > n
                   THEN /\ ElectionStartsOn(m)
                        /\ elec[n].inst[e].st = "run" => elec'[n].inst[e].receivedOK
                   ELSE /\ \A x \in Nodes : ~ElectionStartsOn(x)
                        /\ elec'[n].inst[e].receivedOK = elec[n].inst[e].receivedOK
       /\ \A n \in Nodes, e \in ElecSlots :
             ElectionWaitEnds(n, e) =>
                IF elec[n].inst[e].receivedOK
                THEN UNCHANGED <<coordinator, net>> /\ elec'[n].obc = elec[n].obc
                ELSE /\ coordinator'[n] = NodeIDs[n]
                     /\ net' = net \cup FanOut(n, "HandleCoordinator", [NodeID |-> NodeIDs[n], Rank |-> n])
                     /\ elec'[n].obc = elec[n].obc + 1]_vars

\* A StartElection in its wait has the OK of a higher-ranked peer, and that
\* peer has declared itself.
C35_Witness ==
    \E n \in Nodes, e \in ElecSlots :
       /\ alive[n]
       /\ elec[n].inst[e].st = "run"
       /\ elec[n].inst[e].receivedOK
       /\ \E m \in Nodes : m > n /\ alive[m] /\ coordinator[m] = NodeIDs[m]

\* The step in which the PREPARE call k of the ProposeBid in slot p of node
\* n resolves.
PrepareResolves(n, p, k) ==
    /\ alive[n] /\ alive'[n]
    /\ k \in DOMAIN proc[n][p].prc
    /\ proc[n][p].prc[k].st = "sent"
    /\ k \in DOMAIN proc'[n][p].prc
    /\ proc'[n][p].prc[k].st # "sent"

\* C36: a peer that handles PREPARE votes YES exactly when canPrepareBid
\* holds for the bid on its own queue state at that moment; it records the
\* pending entry of the transaction exactly when it votes YES; a NO vote
\* leaves its pending map unchanged, and no vote changes a queue.
C36_PrepareVote ==
    [][\A n \in Nodes, p \in Procs, k \in 1..Len(PeerAddrs) :
          PrepareResolves(n, p, k) =>
             LET m   == Resolve(peers[n][k])
                 pr  == proc[n][p]
                 can == m # 0 /\ alive[m] /\ canPrepareBid(queue[m], pr.bid, now)
             IN /\ pr.pc = "collect" => proc'[n][p].prc[k].yes = can
                /\ queue' = queue
                /\ IF can
                   THEN /\ HasPending(pendingTxns'[m], pr.txnID)
                        /\ pendingTxns' = [pendingTxns EXCEPT ![m] =
                                             rememberPendingTxn(@, pr.txnID, pr.bid, now)]
                   ELSE pendingTxns' = pendingTxns]_vars

\* A live peer that is not the proposer has voted NO on a bid another peer
\* has voted YES on.
C36_Witness ==
    \E n \in Nodes, p \in Procs, k, j \in 1..Len(PeerAddrs) :
       /\ k \in DOMAIN proc[n][p].prc /\ j \in DOMAIN proc[n][p].prc
       /\ proc[n][p].pc = "collect"
       /\ proc[n][p].prc[k].st = "reply" /\ ~proc[n][p].prc[k].yes
       /\ Resolve(peers[n][k]) # n /\ alive[Resolve(peers[n][k])]
       /\ pendingTxns[Resolve(peers[n][k])] = {}
       /\ proc[n][p].prc[j].st = "reply" /\ proc[n][p].prc[j].yes

\* The step in which a DECIDE call for transaction x reaches the running
\* node m.
DecideArrives(m, x) ==
    \E msg \in net :
       /\ msg.type = "DecideBid" /\ msg.body.TxnID = x
       /\ Resolve(msg.to) = m /\ alive[m]
       /\ msg \notin net'
       /\ now' = now /\ alive'[m]

\* The step of the sweeper on node n: no call returns and none resolves.
Sweeps(n) ==
    /\ alive[n] /\ alive'[n]
    /\ proc' = proc /\ net' = net
    /\ pendingTxns'[n] # pendingTxns[n]
    /\ pendingTxns'[n] = pendingTxns[n] \ StaleTxns(pendingTxns[n], now)

\* C37: every pending entry is removed in the end. The coordinator's entry
\* is gone when its ProposeBid has decided, a peer's entry is gone when the
\* DECIDE of its transaction has arrived, commit or abort, and an entry
\* older than the TTL is deleted by the sweeper, which changes no queue;
\* an entry of a running node does not stay for ever.
C37_PendingRemoved ==
    /\ [][/\ \A n \in Nodes, p \in Procs :
                Decides(n, p) => ~HasPending(pendingTxns'[n], proc[n][p].txnID)
          /\ \A m \in Nodes : \A x \in {y.TxnID : y \in pendingTxns[m]} :
                DecideArrives(m, x) => ~HasPending(pendingTxns'[m], x)
          /\ \A n \in Nodes : Sweeps(n) => queue' = queue]_vars
    /\ \A m \in Nodes : (pendingTxns[m] # {}) ~> (pendingTxns[m] = {})

\* The coordinator has died, and the sweeper has deleted the entry of its
\* transaction on the peer that had voted: the peer's pending map is empty
\* and its queue is the one it had.
C37_Witness ==
    \E m \in Nodes, s \in hist.swept :
       /\ s[1] = m /\ alive[m] /\ pendingTxns[m] = {}
       /\ ~alive[RankOfID(s[2][1])]
       /\ net = {}
       /\ queue[m] = ElectedQueue(1)

\* The step in which the collect loop of slot p of node n takes a vote.
TakesVote(n, p) ==
    /\ proc[n][p].pc = "collect" /\ proc'[n][p].pc = "collect"
    /\ Len(proc'[n][p].tally) > Len(proc[n][p].tally)

\* C38: vote collection terminates. A ProposeBid that has sent PREPARE
\* decides whatever the peers do; the loop takes no vote once
\* votes >= quorum or votes + pendingResponses < quorum, it decides only
\* when one of the two holds or nothing is waited for any more (every
\* result taken, or the vote timer has fired), and once ProposeBid has
\* returned no reply changes what it returned.
C38_VoteCollectionTerminates ==
    /\ \A n \in Nodes, p \in Procs : (proc[n][p].pc = "collect") ~> (proc[n][p].pc = "done")
    /\ [][\A n \in Nodes, p \in Procs :
             /\ TakesVote(n, p) =>
                   /\ proc[n][p].votes < proc[n][p].quorum
                   /\ proc[n][p].votes + proc[n][p].pendingResponses >= proc[n][p].quorum
             /\ Decides(n, p) =>
                   /\ \/ proc[n][p].votes >= proc[n][p].quorum
                      \/ proc[n][p].votes + proc[n][p].pendingResponses < proc[n][p].quorum
                      \/ proc[n][p].pendingResponses = 0
                   /\ proc'[n][p].ok = (proc[n][p].votes >= proc[n][p].quorum)
             /\ (proc[n][p].pc = "done" /\ proc[n][p].txnID # NoTxn /\ proc'[n][p].pc = "done") =>
                   /\ proc'[n][p].ok = proc[n][p].ok
                   /\ proc'[n][p].message = proc[n][p].message
                   /\ proc'[n][p].votes = proc[n][p].votes]_vars

\* ProposeBid has decided on the vote timer: no result was taken and a
\* PREPARE call to a running peer is still unanswered.
C38_Witness ==
    \E n \in Nodes, p \in Procs, k \in 1..Len(PeerAddrs) :
       /\ proc[n][p].pc = "done" /\ proc[n][p].txnID # NoTxn
       /\ proc[n][p].tally = <<>>
       /\ k \in DOMAIN proc[n][p].prc
       /\ proc[n][p].prc[k].st = "sent"
       /\ alive[Resolve(peers[n][k])]

\* The item that was open on the coordinator when the re-check of
\* canPrepareBid accepted the bid of transaction x.
ProposedItem(x) ==
    LET slots == {np \in Nodes \X Procs : proc[np[1]][np[2]].txnID = x}
    IN IF slots = {} THEN NoItem
       ELSE LET np == CHOOSE np \in slots : TRUE IN proc[np[1]][np[2]].item

\* The transaction ids of the calls that have reached PREPARE.
ProposedTxns == {proc[n][p].txnID : n \in Nodes, p \in Procs} \ {NoTxn}

\* The step applies the decision of transaction x on node m: its own
\* ProposeBid decides, or the DECIDE call arrives.
DecisionApplied(m, x) ==
    \/ \E p \in Procs : Decides(m, p) /\ proc[m][p].txnID = x
    \/ DecideArrives(m, x)

\* C39: a committed bid is applied only to the item it was proposed for:
\* on every node a step that applies a decision changes CurrentHighestBid
\* or CurrentWinner only when the node's current item is the one that was
\* open when the re-check of canPrepareBid accepted the bid.
C39_CommitAppliesToProposedItem ==
    [][\A m \in Nodes : \A x \in ProposedTxns :
          (/\ DecisionApplied(m, x)
           /\ \/ queue'[m].CurrentHighestBid # queue[m].CurrentHighestBid
              \/ queue'[m].CurrentWinner # queue[m].CurrentWinner)
          => queue[m].CurrentItem = ProposedItem(x)]_vars

\* C40: on every running node the highest bid never goes down while the
\* same item stays open: no step (a pushed snapshot, also one the
\* coordinator delivers to itself, a pulled snapshot, a DECIDE) leaves the
\* current item and its deadline as they are and CurrentHighestBid lower.
C40_HighestBidMonotonic ==
    [][\A m \in Nodes :
          (/\ alive[m] /\ alive'[m]
           /\ queue[m].CurrentItem # NoItem
           /\ queue'[m].CurrentItem = queue[m].CurrentItem
           /\ queue'[m].DeadlineUnix = queue[m].DeadlineUnix)
          => queue'[m].CurrentHighestBid >= queue[m].CurrentHighestBid]_vars
=============================================================================
